---- MODULE Spec2Model ----
(***************************************************************************)
(* Model of the PyGameMaker editor (src/gamemaker_03.py): the document of  *)
(* backgrounds, sprites, object types and levels, the editor handlers that *)
(* mutate it, the canvas pointer handlers, and save_project/open_project.  *)
(***************************************************************************)
EXTENDS Integers, Sequences, FiniteSets, TLC

VARIABLES
    backgrounds,                \* GameMakerIDE.backgrounds
    sprites,                    \* GameMakerIDE.sprites
    objects,                    \* GameMakerIDE.objects
    levels,                     \* GameMakerIDE.levels
    selected_sprite_index,
    selected_object_index,
    selected_level_index,
    selected_background_index,
    dragged,                    \* GameCanvas.dragged_instance is not None
    drag_offset,                \* GameCanvas.drag_offset
    grid_size,                  \* GameCanvas.grid_size
    file,                       \* the text last written by save_project
    pc,                         \* "idle", or the modal dialog that is open
    dlg_idx,                    \* the local idx of the handler whose dialog is open
    mouse_down,                 \* a pointer button is held on the canvas
    painted,                    \* what the last paintEvent met (history)
    saved,                      \* the document as it was when file was written (history)
    last                        \* the handler that ran last and its outcome (history)

doc_vars == <<backgrounds, sprites, objects, levels>>
sel_vars == <<selected_sprite_index, selected_object_index,
              selected_level_index, selected_background_index>>
canvas_vars == <<dragged, drag_offset, grid_size, mouse_down>>
ui_vars == <<pc, dlg_idx, painted>>
vars == <<backgrounds, sprites, objects, levels, selected_sprite_index,
          selected_object_index, selected_level_index, selected_background_index,
          dragged, drag_offset, grid_size, mouse_down, file, pc, dlg_idx, painted,
          saved, last>>

----------------------------------------------------------------------------
(* Bounds of the model. *)
MaxSprites == 2
MaxBackgrounds == 2
MaxObjects == 2
MaxLevels == 2
\* instances of all levels together
MaxInstances == 2
\* sprites, backgrounds, object types, levels and instances together
MaxEntities == 5

----------------------------------------------------------------------------
(* Python values. None is an integer no index, coordinate or size of the   *)
(* model takes; NoBytes and NoText stand for None where bytes or text are  *)
(* expected (a byte is 0..255, a base64 symbol 0..64).                     *)
None == -1000
NoBytes == <<-1>>
NoText == <<-1>>

\* bool(b) for a bytes-or-None value: None and b"" are falsy.
Truthy(b) == b # NoBytes /\ b # <<>>

(* Strings are sequences of characters, so that strip(), lower() and       *)
(* endswith() are computed.                                                *)
Lower(c) ==
    CASE c = "G" -> "g" [] c = "I" -> "i" [] c = "F" -> "f"
      [] c = "P" -> "p" [] c = "N" -> "n" [] OTHER -> c

LowerStr(s) == [i \in 1..Len(s) |-> Lower(s[i])]

EndsWith(s, suffix) ==
    /\ Len(s) >= Len(suffix)
    /\ SubSeq(s, Len(s) - Len(suffix) + 1, Len(s)) = suffix

IsSpace(c) == c \in {" ", "\t", "\n"}

\* a test of the name without strip()
StripTruthy_NonEmpty(s) == s # <<>>

\* str.strip() is non-empty exactly when some character is not whitespace.
StripTruthy(s) == \E i \in 1..Len(s) : ~IsSpace(s[i])

PNG == <<"P", "N", "G">>
GIF == <<"G", "I", "F">>
DotGif == <<".", "g", "i", "f">>

\* (img_format and img_format.lower() == "gif") or (name and name.lower().endswith(".gif"))
IsGif(name, img_format) ==
    \/ LowerStr(img_format) = <<"g", "i", "f">>
    \/ (name # <<>> /\ EndsWith(LowerStr(name), DotGif))

----------------------------------------------------------------------------
(* base64: three bytes to four symbols 0..63, padded with the symbol 64.   *)
Pad == 64

RECURSIVE b64encode(_)
b64encode(b) ==
    IF Len(b) = 0 THEN <<>>
    ELSE IF Len(b) = 1 THEN
        <<b[1] \div 4, (b[1] % 4) * 16, Pad, Pad>>
    ELSE IF Len(b) = 2 THEN
        <<b[1] \div 4, (b[1] % 4) * 16 + b[2] \div 16, (b[2] % 16) * 4, Pad>>
    ELSE
        <<b[1] \div 4, (b[1] % 4) * 16 + b[2] \div 16,
          (b[2] % 16) * 4 + b[3] \div 64, b[3] % 64>>
        \o b64encode(SubSeq(b, 4, Len(b)))

\* binascii.Error: the text is not a whole number of padded four-symbol groups.
b64valid(t) ==
    /\ Len(t) % 4 = 0
    /\ \A i \in 1..Len(t) : t[i] \in 0..Pad
    /\ \A i \in 1..Len(t) : t[i] = Pad => i > Len(t) - 2 /\ (i = Len(t) \/ t[i + 1] = Pad)

\* b64decode that takes every group for three bytes, the padding for zeros
RECURSIVE b64decode_PadAsZero(_)
b64decode_PadAsZero(t) ==
    IF Len(t) = 0 THEN <<>>
    ELSE LET c3 == IF t[3] = Pad THEN 0 ELSE t[3]
             c4 == IF t[4] = Pad THEN 0 ELSE t[4]
         IN  <<t[1] * 4 + t[2] \div 16, (t[2] % 16) * 16 + c3 \div 4, (c3 % 4) * 64 + c4>>
             \o b64decode_PadAsZero(SubSeq(t, 5, Len(t)))

RECURSIVE b64decode(_)
b64decode(t) ==
    IF Len(t) = 0 THEN <<>>
    ELSE LET b1 == t[1] * 4 + t[2] \div 16
             b2 == (t[2] % 16) * 16 + (IF t[3] = Pad THEN 0 ELSE t[3] \div 4)
             b3 == (IF t[3] = Pad THEN 0 ELSE (t[3] % 4) * 64) + (IF t[4] = Pad THEN 0 ELSE t[4])
             head == IF t[3] = Pad THEN <<b1>> ELSE IF t[4] = Pad THEN <<b1, b2>> ELSE <<b1, b2, b3>>
         IN  head \o b64decode(SubSeq(t, 5, Len(t)))

----------------------------------------------------------------------------
(* The image codec, opaque to the editor: the size of the pixmap decoded   *)
(* from bytes. The first two bytes are taken as width and height; shorter  *)
(* data does not decode and gives the null pixmap.                         *)
PixSize(b) == IF Len(b) >= 2 THEN <<b[1], b[2]>> ELSE <<0, 0>>

----------------------------------------------------------------------------
(* Data classes. *)

\* Sprite._prepare / BackgroundResource._prepare without the mode test
PrepareImage(r) ==
    IF Truthy(r.img_bytes)
    THEN IF r.is_gif THEN [r EXCEPT !.movie = r.img_bytes]
                     ELSE [r EXCEPT !.pixmap = r.img_bytes]
    ELSE r

Sprite(name, img_bytes, img_format) ==
    PrepareImage([name |-> name, img_bytes |-> img_bytes, img_format |-> img_format,
                  is_gif |-> IsGif(name, img_format),
                  movie |-> NoBytes, pixmap |-> NoBytes])

SpritePixmap(s) ==
    IF s.is_gif /\ s.movie # NoBytes THEN PixSize(s.movie)
    ELSE IF s.pixmap # NoBytes THEN PixSize(s.pixmap)
    ELSE <<40, 40>>

DefaultColor == <<200, 200, 255, 255>>

BackgroundPrepare(r) ==
    IF r.mode = "image" THEN PrepareImage(r) ELSE r

BackgroundResource(name, mode, color, img_bytes, img_format, tiled) ==
    BackgroundPrepare([name |-> name, mode |-> mode,
                       color |-> IF color = <<>> THEN DefaultColor ELSE color,
                       img_bytes |-> img_bytes, img_format |-> img_format,
                       tiled |-> tiled, is_gif |-> IsGif(name, img_format),
                       movie |-> NoBytes, pixmap |-> NoBytes])

GameObjectType(name, sprite_index) == [name |-> name, sprite_index |-> sprite_index]

\* an instance that always references object type 0
GameObjectInstance_Fixed(x, y, object_index) ==
    [x |-> x, y |-> y, object_index |-> 0, held |-> FALSE]

\* held marks the instance object that GameCanvas.dragged_instance refers to.
GameObjectInstance(x, y, object_index) ==
    [x |-> x, y |-> y, object_index |-> object_index, held |-> FALSE]

\* a level that always shows background 0
Level_Fixed(name, width, height, background_index) ==
    [name |-> name, width |-> width, height |-> height,
     background_index |-> 0, instances |-> <<>>]

Level(name, width, height, background_index) ==
    [name |-> name, width |-> width, height |-> height,
     background_index |-> background_index, instances |-> <<>>]

InRange(idx, seq) == idx # None /\ 0 <= idx /\ idx < Len(seq)

\* del seq[0] whatever idx is
DelAt_Bottom(seq, idx) == Tail(seq)

\* del seq[idx], idx a 0-based index in range
DelAt(seq, idx) == SubSeq(seq, 1, idx) \o SubSeq(seq, idx + 2, Len(seq))

----------------------------------------------------------------------------
(* Handlers of GameMakerIDE. A handler runs when the event loop is idle: no *)
(* modal dialog is open and the canvas does not hold the pointer. A dialog  *)
(* the handler opens is answered inside the step; its answer is a parameter.*)

Idle == pc = "idle" /\ ~mouse_down

\* the document and the selection, as one value
Snapshot ==
    [backgrounds |-> backgrounds, sprites |-> sprites, objects |-> objects,
     levels |-> levels,
     selected_sprite_index |-> selected_sprite_index,
     selected_object_index |-> selected_object_index,
     selected_level_index |-> selected_level_index,
     selected_background_index |-> selected_background_index]

(* The history variable last names the handler that ran last, the index it *)
(* worked on, whether it went through, and the document it started from.   *)
(* A specification whose claims do not read it starts with NoHistory, and  *)
(* none is kept.                                                           *)
NoHistory == [op |-> "untracked", idx |-> None, done |-> FALSE]

Did(op, idx, done) ==
    IF last = NoHistory THEN NoHistory
    ELSE IF "pre" \in DOMAIN last
    THEN [op |-> op, idx |-> idx, done |-> done, pre |-> Snapshot]
    ELSE [op |-> op, idx |-> idx, done |-> done]

\* the history entry of a handler whose dialog returned arg
DidArg(op, idx, done, arg) ==
    IF last = NoHistory THEN NoHistory
    ELSE IF "pre" \in DOMAIN last
    THEN [op |-> op, idx |-> idx, done |-> done, pre |-> Snapshot, arg |-> arg]
    ELSE [op |-> op, idx |-> idx, done |-> done, arg |-> arg]

hist_vars == <<file, saved, painted>>

\* --- Backgrounds ---

add_background(accepted, name, mode, color, img_bytes, img_format, tiled) ==
    /\ Idle
    /\ IF accepted
       THEN backgrounds' = Append(backgrounds,
                BackgroundResource(name, mode, color, img_bytes, img_format, tiled))
       ELSE UNCHANGED backgrounds
    /\ last' = Did("add_background", None, accepted)
    /\ UNCHANGED <<sprites, objects, levels, sel_vars, canvas_vars, pc, dlg_idx, hist_vars>>

bg_dropEvent(name, img_bytes, img_format) ==
    /\ Idle
    /\ backgrounds' = Append(backgrounds,
           BackgroundResource(name, "image", <<>>, img_bytes, img_format, TRUE))
    /\ last' = Did("bg_drop", None, TRUE)
    /\ UNCHANGED <<sprites, objects, levels, sel_vars, canvas_vars, pc, dlg_idx, hist_vars>>

edit_background_apply(idx, name, mode, color, img_bytes, img_format, tiled) ==
    backgrounds' = [backgrounds EXCEPT ![idx + 1] =
        BackgroundPrepare([@ EXCEPT !.name = name, !.mode = mode, !.color = color,
                                    !.img_bytes = img_bytes, !.img_format = img_format,
                                    !.tiled = tiled])]

edit_background(accepted, name, mode, color, img_bytes, img_format, tiled) ==
    LET idx == selected_background_index
        done == InRange(idx, backgrounds) /\ accepted
    IN  /\ Idle
        /\ IF done
           THEN edit_background_apply(idx, name, mode, color, img_bytes, img_format, tiled)
           ELSE UNCHANGED backgrounds
        /\ last' = Did("edit_background", idx, done)
        /\ UNCHANGED <<sprites, objects, levels, sel_vars, canvas_vars, pc, dlg_idx, hist_vars>>

rename_background(ok, name) ==
    LET idx == selected_background_index
        done == InRange(idx, backgrounds) /\ ok /\ StripTruthy(name)
    IN  /\ Idle
        /\ IF done
           THEN backgrounds' = [backgrounds EXCEPT ![idx + 1].name = name]
           ELSE UNCHANGED backgrounds
        /\ last' = DidArg("rename_background", idx, done, [ok |-> ok, name |-> name])
        /\ UNCHANGED <<sprites, objects, levels, sel_vars, canvas_vars, pc, dlg_idx, hist_vars>>

\* BackgroundCascade without the renumbering of the backgrounds after idx
BackgroundCascade_NoShift(lvl, idx) ==
    IF lvl.background_index = idx THEN [lvl EXCEPT !.background_index = None] ELSE lvl

\* the loop over self.levels of delete_background
BackgroundCascade(lvl, idx) ==
    IF lvl.background_index = idx
    THEN [lvl EXCEPT !.background_index = None]
    ELSE IF lvl.background_index # None /\ lvl.background_index > idx
         THEN [lvl EXCEPT !.background_index = @ - 1]
         ELSE lvl

delete_background_apply(idx) ==
    /\ levels' = [i \in 1..Len(levels) |-> BackgroundCascade(levels[i], idx)]
    /\ backgrounds' = DelAt(backgrounds, idx)
    /\ selected_background_index' = None

\* delete_background going ahead whatever the answer to the question is
delete_background_Unasked(confirm) ==
    LET idx == selected_background_index
        done == InRange(idx, backgrounds)
    IN  /\ Idle
        /\ IF done
           THEN delete_background_apply(idx)
           ELSE UNCHANGED <<levels, backgrounds, selected_background_index>>
        /\ last' = DidArg("delete_background", idx, done, [confirm |-> confirm])
        /\ UNCHANGED <<sprites, objects, selected_sprite_index, selected_object_index,
                       selected_level_index, canvas_vars, pc, dlg_idx, hist_vars>>

delete_background(confirm) ==
    LET idx == selected_background_index
        done == InRange(idx, backgrounds) /\ confirm
    IN  /\ Idle
        /\ IF done
           THEN delete_background_apply(idx)
           ELSE UNCHANGED <<levels, backgrounds, selected_background_index>>
        /\ last' = DidArg("delete_background", idx, done, [confirm |-> confirm])
        /\ UNCHANGED <<sprites, objects, selected_sprite_index, selected_object_index,
                       selected_level_index, canvas_vars, pc, dlg_idx, hist_vars>>

on_background_selected(row) ==
    /\ Idle
    /\ row \in 0..(Len(backgrounds) - 1)
    /\ selected_background_index' = row
    /\ last' = Did("select_background", row, TRUE)
    /\ UNCHANGED <<doc_vars, selected_sprite_index, selected_object_index,
                   selected_level_index, canvas_vars, pc, dlg_idx, hist_vars>>

\* --- Sprites ---

\* add_sprite putting the new sprite in front of the others
add_sprite_Front(accepted, name, img_bytes, img_format) ==
    /\ Idle
    /\ IF accepted
       THEN sprites' = <<Sprite(name, img_bytes, img_format)>> \o sprites
       ELSE UNCHANGED sprites
    /\ last' = Did("add_sprite", None, accepted)
    /\ UNCHANGED <<backgrounds, objects, levels, sel_vars, canvas_vars, pc, dlg_idx, hist_vars>>

add_sprite(accepted, name, img_bytes, img_format) ==
    /\ Idle
    /\ IF accepted
       THEN sprites' = Append(sprites, Sprite(name, img_bytes, img_format))
       ELSE UNCHANGED sprites
    /\ last' = Did("add_sprite", None, accepted)
    /\ UNCHANGED <<backgrounds, objects, levels, sel_vars, canvas_vars, pc, dlg_idx, hist_vars>>

sprite_dropEvent(name, img_bytes, img_format) ==
    /\ Idle
    /\ sprites' = Append(sprites, Sprite(name, img_bytes, img_format))
    /\ last' = Did("sprite_drop", None, TRUE)
    /\ UNCHANGED <<backgrounds, objects, levels, sel_vars, canvas_vars, pc, dlg_idx, hist_vars>>

edit_sprite_apply(idx, name, img_bytes, img_format) ==
    sprites' = [sprites EXCEPT ![idx + 1] =
        PrepareImage([@ EXCEPT !.name = name, !.img_bytes = img_bytes,
                               !.img_format = img_format])]

edit_sprite(accepted, name, img_bytes, img_format) ==
    LET idx == selected_sprite_index
        done == InRange(idx, sprites) /\ accepted
    IN  /\ Idle
        /\ IF done THEN edit_sprite_apply(idx, name, img_bytes, img_format)
                   ELSE UNCHANGED sprites
        /\ last' = Did("edit_sprite", idx, done)
        /\ UNCHANGED <<backgrounds, objects, levels, sel_vars, canvas_vars, pc, dlg_idx, hist_vars>>

rename_sprite(ok, name) ==
    LET idx == selected_sprite_index
        done == InRange(idx, sprites) /\ ok /\ StripTruthy(name)
    IN  /\ Idle
        /\ IF done THEN sprites' = [sprites EXCEPT ![idx + 1].name = name]
                   ELSE UNCHANGED sprites
        /\ last' = DidArg("rename_sprite", idx, done, [ok |-> ok, name |-> name])
        /\ UNCHANGED <<backgrounds, objects, levels, sel_vars, canvas_vars, pc, dlg_idx, hist_vars>>

\* SpriteCascade without the renumbering of the sprites after idx
SpriteCascade_NoShift(obj, idx) ==
    IF obj.sprite_index = idx THEN [obj EXCEPT !.sprite_index = None] ELSE obj

\* the loop over self.objects of delete_sprite
SpriteCascade(obj, idx) ==
    IF obj.sprite_index = idx
    THEN [obj EXCEPT !.sprite_index = None]
    ELSE IF obj.sprite_index # None /\ obj.sprite_index > idx
         THEN [obj EXCEPT !.sprite_index = @ - 1]
         ELSE obj

delete_sprite_apply(idx) ==
    /\ objects' = [i \in 1..Len(objects) |-> SpriteCascade(objects[i], idx)]
    /\ sprites' = DelAt(sprites, idx)
    /\ selected_sprite_index' = None

\* delete_sprite that also takes away the instances that showed the sprite
delete_sprite_Purge(confirm) ==
    LET idx == selected_sprite_index
        done == InRange(idx, sprites) /\ confirm
        shows(inst) == /\ InRange(inst.object_index, objects)
                       /\ objects[inst.object_index + 1].sprite_index = idx
    IN  /\ Idle
        /\ IF done
           THEN /\ delete_sprite_apply(idx)
                /\ levels' = [l \in 1..Len(levels) |->
                       [levels[l] EXCEPT !.instances = SelectSeq(@, LAMBDA i : ~shows(i))]]
           ELSE UNCHANGED <<objects, sprites, selected_sprite_index, levels>>
        /\ last' = DidArg("delete_sprite", idx, done, [confirm |-> confirm])
        /\ UNCHANGED <<backgrounds, selected_object_index, selected_level_index,
                       selected_background_index, canvas_vars, pc, dlg_idx, hist_vars>>

delete_sprite(confirm) ==
    LET idx == selected_sprite_index
        done == InRange(idx, sprites) /\ confirm
    IN  /\ Idle
        /\ IF done
           THEN delete_sprite_apply(idx)
           ELSE UNCHANGED <<objects, sprites, selected_sprite_index>>
        /\ last' = DidArg("delete_sprite", idx, done, [confirm |-> confirm])
        /\ UNCHANGED <<backgrounds, levels, selected_object_index, selected_level_index,
                       selected_background_index, canvas_vars, pc, dlg_idx, hist_vars>>

on_sprite_selected(row) ==
    /\ Idle
    /\ row \in 0..(Len(sprites) - 1)
    /\ selected_sprite_index' = row
    /\ last' = Did("select_sprite", row, TRUE)
    /\ UNCHANGED <<doc_vars, selected_object_index, selected_level_index,
                   selected_background_index, canvas_vars, pc, dlg_idx, hist_vars>>

\* --- Objects ---

add_object(ok, name) ==
    LET done == ok /\ StripTruthy(name)
    IN  /\ Idle
        /\ IF done
           THEN /\ objects' = Append(objects, GameObjectType(name, None))
                /\ selected_object_index' = Len(objects)
           ELSE UNCHANGED <<objects, selected_object_index>>
        /\ last' = Did("add_object", None, done)
        /\ UNCHANGED <<backgrounds, sprites, levels, selected_sprite_index,
                       selected_level_index, selected_background_index,
                       canvas_vars, pc, dlg_idx, hist_vars>>

NoneStr == <<"N", "o", "n", "e">>

\* choices = ["None"] + [s.name for s in self.sprites]
Choices == <<NoneStr>> \o [i \in 1..Len(sprites) |-> sprites[i].name]

\* list.index(val): the first position holding val, 0-based
IndexOf(seq, val) == (CHOOSE i \in 1..Len(seq) :
                         seq[i] = val /\ \A j \in 1..(i - 1) : seq[j] # val) - 1

\* seq[i] of Python raises IndexError outside -len..len-1
PyIndexOK(seq, i) == i # None /\ -Len(seq) <= i /\ i < Len(seq)
PyGet(seq, i) == IF i >= 0 THEN seq[i + 1] ELSE seq[Len(seq) + i + 1]

\* choices[obj.sprite_index+1] of dlg.setTextValue raises IndexError
EditObjectRaises(idx) ==
    LET si == objects[idx + 1].sprite_index
    IN  si # None /\ ~PyIndexOK(Choices, si + 1)

edit_object_apply(idx, row) ==
    LET idx_val == IndexOf(Choices, Choices[row + 1]) - 1
    IN  objects' = [objects EXCEPT ![idx + 1].sprite_index =
                        IF idx_val >= 0 THEN idx_val ELSE None]

\* row is the row of the combo box the user accepts the dialog with
edit_object(accepted, row) ==
    LET idx == selected_object_index
        valid == InRange(idx, objects)
        raises == valid /\ EditObjectRaises(idx)
        done == valid /\ ~raises /\ accepted
    IN  /\ Idle
        /\ row \in 0..Len(sprites)
        /\ IF done THEN edit_object_apply(idx, row) ELSE UNCHANGED objects
        /\ pc' = IF raises THEN "crashed" ELSE pc
        /\ last' = Did("edit_object", idx, done)
        /\ UNCHANGED <<backgrounds, sprites, levels, sel_vars, canvas_vars, dlg_idx, hist_vars>>

rename_object(ok, name) ==
    LET idx == selected_object_index
        done == InRange(idx, objects) /\ ok /\ StripTruthy(name)
    IN  /\ Idle
        /\ IF done THEN objects' = [objects EXCEPT ![idx + 1].name = name]
                   ELSE UNCHANGED objects
        /\ last' = DidArg("rename_object", idx, done, [ok |-> ok, name |-> name])
        /\ UNCHANGED <<backgrounds, sprites, levels, sel_vars, canvas_vars, pc, dlg_idx, hist_vars>>

\* [inst for inst in lvl.instances if inst.object_index != idx]
RECURSIVE InstancesNotOf(_, _)
InstancesNotOf(insts, idx) ==
    IF insts = <<>> THEN <<>>
    ELSE (IF insts[1].object_index # idx THEN <<insts[1]>> ELSE <<>>)
         \o InstancesNotOf(Tail(insts), idx)

\* the body of the loop over self.levels of delete_object
ObjectCascade(lvl, idx) ==
    LET kept == InstancesNotOf(lvl.instances, idx)
    IN  [lvl EXCEPT !.instances =
            [i \in 1..Len(kept) |->
                IF kept[i].object_index > idx
                THEN [kept[i] EXCEPT !.object_index = @ - 1]
                ELSE kept[i]]]

\* delete_object_apply with the cascade run on the current level only
delete_object_apply_CurrentOnly(idx) ==
    /\ levels' = [i \in 1..Len(levels) |->
                     IF i = selected_level_index + 1
                     THEN ObjectCascade(levels[i], idx) ELSE levels[i]]
    /\ objects' = DelAt(objects, idx)
    /\ selected_object_index' = None

\* delete_object that leaves the first row selected
delete_object_apply_Stale(idx) ==
    /\ levels' = [i \in 1..Len(levels) |-> ObjectCascade(levels[i], idx)]
    /\ objects' = DelAt(objects, idx)
    /\ selected_object_index' = IF Len(objects) > 1 THEN 0 ELSE None

delete_object_apply(idx) ==
    /\ levels' = [i \in 1..Len(levels) |-> ObjectCascade(levels[i], idx)]
    /\ objects' = DelAt(objects, idx)
    /\ selected_object_index' = None

delete_object(confirm) ==
    LET idx == selected_object_index
        done == InRange(idx, objects) /\ confirm
    IN  /\ Idle
        /\ IF done
           THEN delete_object_apply(idx)
           ELSE UNCHANGED <<levels, objects, selected_object_index>>
        /\ last' = DidArg("delete_object", idx, done, [confirm |-> confirm])
        /\ UNCHANGED <<backgrounds, sprites, selected_sprite_index, selected_level_index,
                       selected_background_index, canvas_vars, pc, dlg_idx, hist_vars>>

on_object_selected(row) ==
    /\ Idle
    /\ row \in 0..(Len(objects) - 1)
    /\ selected_object_index' = row
    /\ last' = Did("select_object", row, TRUE)
    /\ UNCHANGED <<doc_vars, selected_sprite_index, selected_level_index,
                   selected_background_index, canvas_vars, pc, dlg_idx, hist_vars>>

\* --- Levels ---

get_current_level ==
    IF InRange(selected_level_index, levels) THEN selected_level_index ELSE None

add_level(ok, name) ==
    LET done == ok /\ StripTruthy(name)
    IN  /\ Idle
        /\ IF done
           THEN /\ levels' = Append(levels,
                      Level(name, 640, 360, IF backgrounds # <<>> THEN 0 ELSE None))
                /\ selected_level_index' = Len(levels)
           ELSE UNCHANGED <<levels, selected_level_index>>
        /\ last' = DidArg("add_level", None, done, [ok |-> ok, name |-> name])
        /\ UNCHANGED <<backgrounds, sprites, objects, selected_sprite_index,
                       selected_object_index, selected_background_index,
                       canvas_vars, pc, dlg_idx, hist_vars>>

rename_level(ok, name) ==
    LET idx == selected_level_index
        done == InRange(idx, levels) /\ ok /\ StripTruthy(name)
    IN  /\ Idle
        /\ IF done THEN levels' = [levels EXCEPT ![idx + 1].name = name]
                   ELSE UNCHANGED levels
        /\ last' = DidArg("rename_level", idx, done, [ok |-> ok, name |-> name])
        /\ UNCHANGED <<backgrounds, sprites, objects, sel_vars, canvas_vars, pc, dlg_idx, hist_vars>>

(* The text of the resize dialog, split at its commas: a sequence of       *)
(* fields, each [int |-> whether int() accepts it, val |-> its value].     *)
\* w, h = map(int, text.split(",")) raises unless there are two integers
ParsesSize(fields) == Len(fields) = 2 /\ fields[1].int /\ fields[2].int

set_level_screen_size(accepted, fields) ==
    LET idx == get_current_level
        done == idx # None /\ accepted /\ ParsesSize(fields)
    IN  /\ Idle
        /\ IF done
           THEN levels' = [levels EXCEPT ![idx + 1].width = fields[1].val,
                                         ![idx + 1].height = fields[2].val]
           ELSE UNCHANGED levels
        /\ last' = Did("set_level_screen_size", idx, done)
        /\ UNCHANGED <<backgrounds, sprites, objects, sel_vars, canvas_vars, pc, dlg_idx, hist_vars>>

\* set_level_background storing whatever index is asked for
set_level_background_Unchecked(ok, idx) ==
    LET lvl == get_current_level
        done == lvl # None /\ ok
    IN  /\ Idle
        /\ IF done
           THEN levels' = [levels EXCEPT ![lvl + 1].background_index = idx]
           ELSE UNCHANGED levels
        /\ last' = Did("set_level_background", lvl, done)
        /\ UNCHANGED <<backgrounds, sprites, objects, sel_vars, canvas_vars, pc, dlg_idx, hist_vars>>

\* QInputDialog.getInt(min=0, max=len(backgrounds)-1) returns idx in that range
set_level_background(ok, idx) ==
    LET lvl == get_current_level
        done == lvl # None /\ backgrounds # <<>> /\ ok
    IN  /\ Idle
        /\ idx \in 0..(Len(backgrounds) - 1) \/ (backgrounds = <<>> /\ idx = 0)
        /\ IF done
           THEN levels' = [levels EXCEPT ![lvl + 1].background_index = idx]
           ELSE UNCHANGED levels
        /\ last' = Did("set_level_background", lvl, done)
        /\ UNCHANGED <<backgrounds, sprites, objects, sel_vars, canvas_vars, pc, dlg_idx, hist_vars>>

Min(a, b) == IF a <= b THEN a ELSE b

\* delete_level that keeps the selected row as it is
delete_level_apply_Stale(idx) ==
    /\ levels' = DelAt(levels, idx)
    /\ selected_level_index' = IF Len(levels) > 1 THEN idx ELSE None

delete_level_apply(idx) ==
    /\ levels' = DelAt(levels, idx)
    /\ selected_level_index' =
           IF Len(levels) > 1 THEN Min(idx, Len(levels) - 2) ELSE None

\* delete_level with `idx < len(self.levels)` as its only range test
delete_level_Unchecked(confirm) ==
    LET idx == selected_level_index
        k == IF idx # None /\ idx < 0 THEN idx + Len(levels) ELSE idx
        done == idx # None /\ idx < Len(levels) /\ k >= 0 /\ confirm
    IN  /\ Idle
        /\ IF done THEN delete_level_apply(k)
                   ELSE UNCHANGED <<levels, selected_level_index>>
        /\ last' = Did("delete_level", idx, done)
        /\ UNCHANGED <<backgrounds, sprites, objects, selected_sprite_index,
                       selected_object_index, selected_background_index,
                       canvas_vars, pc, dlg_idx, hist_vars>>

delete_level(confirm) ==
    LET idx == selected_level_index
        done == InRange(idx, levels) /\ confirm
    IN  /\ Idle
        /\ IF done THEN delete_level_apply(idx)
                   ELSE UNCHANGED <<levels, selected_level_index>>
        /\ last' = DidArg("delete_level", idx, done, [confirm |-> confirm])
        /\ UNCHANGED <<backgrounds, sprites, objects, selected_sprite_index,
                       selected_object_index, selected_background_index,
                       canvas_vars, pc, dlg_idx, hist_vars>>

on_level_selected(row) ==
    /\ Idle
    /\ row \in 0..(Len(levels) - 1)
    /\ selected_level_index' = row
    /\ last' = Did("select_level", row, TRUE)
    /\ UNCHANGED <<doc_vars, selected_sprite_index, selected_object_index,
                   selected_background_index, canvas_vars, pc, dlg_idx, hist_vars>>

----------------------------------------------------------------------------
(* GameCanvas: the pointer handlers and the paint pass. *)

\* GameObjectInstance.contains_point: "hit", "miss", or "error" when it raises
contains_point(inst, px, py, objs, sprs) ==
    IF ~PyIndexOK(objs, inst.object_index) THEN "error"
    ELSE LET obj == PyGet(objs, inst.object_index)
         IN  IF obj.sprite_index = None \/ obj.sprite_index >= Len(sprs) THEN "miss"
             ELSE IF ~PyIndexOK(sprs, obj.sprite_index) THEN "error"
             ELSE LET pix == SpritePixmap(PyGet(sprs, obj.sprite_index))
                  IN  IF /\ inst.x <= px /\ px <= inst.x + pix[1]
                         /\ inst.y <= py /\ py <= inst.y + pix[2]
                      THEN "hit" ELSE "miss"

\* the scan in placement order: the first instance, from the start, that contains the point
HitScan_NoReverse(insts, px, py) ==
    LET hits == {i \in 1..Len(insts) :
                    contains_point(insts[i], px, py, objects, sprites) = "hit"}
    IN  IF hits = {} THEN 0 ELSE CHOOSE i \in hits : \A j \in hits : i <= j

(* for i in reversed(range(len(level.instances))): the 1-based position of  *)
(* the first instance, from the end, that contains the point; 0 when none  *)
(* does; -1 when contains_point raises before one is found.                *)
HitScan(insts, px, py) ==
    LET res(i) == contains_point(insts[i], px, py, objects, sprites)
        stops == {i \in 1..Len(insts) : res(i) # "miss"}
    IN  IF stops = {} THEN 0
        ELSE LET m == CHOOSE i \in stops : \A j \in stops : j <= i
             IN  IF res(m) = "hit" THEN m ELSE -1

\* int(v / grid_size) * grid_size: rounding towards zero
Snap_Truncated(v, g) == IF v >= 0 THEN (v \div g) * g ELSE -(((-v) \div g) * g)

\* (v // grid_size) * grid_size
Snap(v, g) == (v \div g) * g

\* self.dragged_instance = inst: no other instance object is the dragged one
Unhold(lvls) ==
    [l \in 1..Len(lvls) |->
        [lvls[l] EXCEPT !.instances =
            [i \in 1..Len(lvls[l].instances) |-> [lvls[l].instances[i] EXCEPT !.held = FALSE]]]]

\* the instance picked up and left at its position in the sequence
PickUp_InPlace(lvls, cur, i) ==
    LET cleared == Unhold(lvls)
    IN  [cleared EXCEPT ![cur + 1].instances[i].held = TRUE]

\* level.instances.append(level.instances.pop(i)), with the instance picked up
PickUp(lvls, cur, i) ==
    LET cleared == Unhold(lvls)
        insts == cleared[cur + 1].instances
    IN  [cleared EXCEPT ![cur + 1].instances =
            Append(DelAt(insts, i - 1), [insts[i] EXCEPT !.held = TRUE])]

mousePressEvent(button, px, py) ==
    LET cur == get_current_level
        insts == levels[cur + 1].instances
        hit == HitScan(insts, px, py)
        soi == selected_object_index
        ev == [button |-> button, px |-> px, py |-> py]
    IN  /\ Idle
        /\ mouse_down' = TRUE
        /\ UNCHANGED <<backgrounds, sprites, objects, sel_vars, grid_size, dlg_idx, hist_vars>>
        /\ IF cur = None
           THEN /\ UNCHANGED <<levels, dragged, drag_offset, pc>>
                /\ last' = DidArg("press_no_level", None, FALSE, ev)
           ELSE IF hit = -1
           THEN /\ UNCHANGED <<levels, dragged, drag_offset>>
                /\ pc' = "crashed"
                /\ last' = DidArg("press_raised", None, FALSE, ev)
           ELSE IF button = "left" /\ hit > 0
           THEN /\ levels' = PickUp(levels, cur, hit)
                /\ dragged' = TRUE
                /\ drag_offset' = <<px - insts[hit].x, py - insts[hit].y>>
                /\ UNCHANGED pc
                /\ last' = DidArg("pick_up", hit - 1, TRUE, ev)
           ELSE IF button = "left" /\ soi # None
           THEN /\ levels' = [levels EXCEPT ![cur + 1].instances =
                       Append(@, GameObjectInstance(Snap(px, grid_size), Snap(py, grid_size), soi))]
                /\ UNCHANGED <<dragged, drag_offset, pc>>
                /\ last' = DidArg("place", soi, TRUE, ev)
           ELSE IF button = "right" /\ hit > 0
           THEN /\ levels' = [levels EXCEPT ![cur + 1].instances = DelAt(@, hit - 1)]
                /\ UNCHANGED <<dragged, drag_offset, pc>>
                /\ last' = DidArg("delete_instance", hit - 1, TRUE, ev)
           ELSE /\ UNCHANGED <<levels, dragged, drag_offset, pc>>
                /\ last' = DidArg("press_nothing", None, FALSE, ev)

\* sizes = ["8", "16", "32", "64", "128"]
GridSizes == {8, 16, 32, 64, 128}

\* GameMakerIDE.set_grid_size: the size picked from the list, if the dialog is accepted
set_grid_size(ok, new_size) ==
    /\ Idle
    /\ new_size \in GridSizes
    /\ grid_size' = IF ok THEN new_size ELSE grid_size
    /\ last' = Did("set_grid_size", None, ok)
    /\ UNCHANGED <<doc_vars, sel_vars, dragged, drag_offset, mouse_down, pc, dlg_idx, hist_vars>>

\* Qt delivers move events to the canvas only while a button is held on it
mouseMoveEvent(px, py) ==
    /\ pc = "idle" /\ mouse_down
    /\ IF dragged
       THEN levels' = [l \in 1..Len(levels) |->
                [levels[l] EXCEPT !.instances =
                    [i \in 1..Len(levels[l].instances) |->
                        IF levels[l].instances[i].held
                        THEN [levels[l].instances[i] EXCEPT
                                 !.x = Snap(px - drag_offset[1], grid_size),
                                 !.y = Snap(py - drag_offset[2], grid_size)]
                        ELSE levels[l].instances[i]]]]
       ELSE UNCHANGED levels
    /\ last' = DidArg("move", None, dragged, [px |-> px, py |-> py])
    /\ UNCHANGED <<backgrounds, sprites, objects, sel_vars, canvas_vars, pc, dlg_idx, hist_vars>>

\* GameCanvas defines no mouseReleaseEvent: releasing the button changes nothing
mouseReleaseEvent ==
    /\ pc = "idle" /\ mouse_down
    /\ mouse_down' = FALSE
    /\ last' = Did("release", None, FALSE)
    /\ UNCHANGED <<doc_vars, sel_vars, dragged, drag_offset, grid_size, pc, dlg_idx, hist_vars>>

(* What a paint pass meets: "stale" when one of its range tests on a       *)
(* reference fails (the reference names no entry), "raised" when it        *)
(* indexes out of range, "clean" otherwise.                                *)
PaintResult ==
    LET cur == get_current_level
    IN  IF cur = None THEN "clean"
        ELSE LET lvl == levels[cur + 1]
                 bg == lvl.background_index
                 insts == lvl.instances
                 skipped(i) == insts[i].object_index >= Len(objects)
                 raises(i) == ~skipped(i) /\ ~PyIndexOK(objects, insts[i].object_index)
                 si(i) == PyGet(objects, insts[i].object_index).sprite_index
                 nosprite(i) == ~skipped(i) /\ ~raises(i) /\ si(i) # None
                                /\ ~(0 <= si(i) /\ si(i) < Len(sprites))
             IN  IF \E i \in 1..Len(insts) : raises(i) THEN "raised"
                 ELSE IF \/ (bg # None /\ ~(0 <= bg /\ bg < Len(backgrounds)))
                         \/ \E i \in 1..Len(insts) : skipped(i) \/ nosprite(i)
                      THEN "stale"
                      ELSE "clean"

\* animation_timer fires whenever the event loop runs, also inside a modal dialog
paintEvent ==
    /\ pc # "crashed"
    /\ painted' = [result |-> PaintResult, pc |-> pc,
                    drawn |-> IF get_current_level = None THEN 0
                              ELSE Len(levels[get_current_level + 1].instances)]
    /\ UNCHANGED <<doc_vars, sel_vars, canvas_vars, pc, dlg_idx, file, saved, last>>

----------------------------------------------------------------------------
(* save_project and open_project. A project file is [written |-> FALSE]    *)
(* when there is none, [written |-> TRUE, parses |-> FALSE] when json.load *)
(* rejects its text, and else carries the parsed document in data: a       *)
(* record whose fields are the keys present, None for a JSON null index,   *)
(* NoText for a JSON null string and <<>> for a JSON null color.           *)

NoFile == [written |-> FALSE]
Unparseable == [written |-> TRUE, parses |-> FALSE]
Parsed(data) == [written |-> TRUE, parses |-> TRUE, data |-> data]

\* base64.b64encode(self.img_bytes).decode("utf-8") if self.img_bytes else None
BytesToText(b) == IF Truthy(b) THEN b64encode(b) ELSE NoText

\* Sprite.to_dict
SpriteToDict(sp) ==
    [name |-> sp.name, img_bytes |-> BytesToText(sp.img_bytes), img_format |-> sp.img_format]

\* BackgroundResource.to_dict
BackgroundToDict(bg) ==
    [name |-> bg.name, mode |-> bg.mode, color |-> bg.color,
     img_bytes |-> BytesToText(bg.img_bytes), img_format |-> bg.img_format,
     tiled |-> bg.tiled]

\* the dict save_project builds
SaveData ==
    [backgrounds |-> [i \in 1..Len(backgrounds) |-> BackgroundToDict(backgrounds[i])],
     sprites |-> [i \in 1..Len(sprites) |-> SpriteToDict(sprites[i])],
     objects |-> [i \in 1..Len(objects) |->
                     [name |-> objects[i].name, sprite_index |-> objects[i].sprite_index]],
     levels |-> [l \in 1..Len(levels) |->
                    [name |-> levels[l].name, width |-> levels[l].width,
                     height |-> levels[l].height,
                     background_index |-> levels[l].background_index,
                     instances |-> [i \in 1..Len(levels[l].instances) |->
                         [x |-> levels[l].instances[i].x, y |-> levels[l].instances[i].y,
                          object_index |-> levels[l].instances[i].object_index]]]],
     selected_level_index |-> selected_level_index,
     selected_object_index |-> selected_object_index,
     selected_background_index |-> selected_background_index]

\* save_project that selects the first row of a list with no row selected
save_project_Reselect(chosen, outcome) ==
    /\ Idle
    /\ outcome \in {"ok", "no_open", "no_write"}
    /\ IF chosen /\ outcome = "ok"
       THEN file' = Parsed(SaveData) /\ saved' = Snapshot
       ELSE IF chosen /\ outcome = "no_write"
       THEN file' = Unparseable /\ UNCHANGED saved
       ELSE UNCHANGED <<file, saved>>
    /\ selected_object_index' =
           IF chosen /\ selected_object_index = None /\ objects # <<>>
           THEN 0 ELSE selected_object_index
    /\ last' = Did("save_project", None, chosen /\ outcome = "ok")
    /\ UNCHANGED <<doc_vars, selected_sprite_index, selected_level_index,
                   selected_background_index, canvas_vars, pc, dlg_idx, painted>>

(* outcome: "ok"; "no_open" when open(file_name, 'w') raises; "no_write"   *)
(* when json.dump raises after the file was truncated.                     *)
save_project(chosen, outcome) ==
    /\ Idle
    /\ outcome \in {"ok", "no_open", "no_write"}
    /\ IF chosen /\ outcome = "ok"
       THEN file' = Parsed(SaveData) /\ saved' = Snapshot
       ELSE IF chosen /\ outcome = "no_write"
       THEN file' = Unparseable /\ UNCHANGED saved
       ELSE UNCHANGED <<file, saved>>
    /\ last' = Did("save_project", None, chosen /\ outcome = "ok")
    /\ UNCHANGED <<doc_vars, sel_vars, canvas_vars, pc, dlg_idx, painted>>

Has(d, key) == key \in DOMAIN d
Get(d, key, default) == IF key \in DOMAIN d THEN d[key] ELSE default

\* base64.b64decode(d["img_bytes"]) if d.get("img_bytes") else None
TextIsTruthy(d) == Has(d, "img_bytes") /\ d.img_bytes # NoText /\ d.img_bytes # <<>>
TextToBytes(d) == IF TextIsTruthy(d) THEN b64decode(d.img_bytes) ELSE NoBytes

\* from_dict raises: KeyError for the name, binascii.Error for the bytes
FromDictRaises(d) == ~Has(d, "name") \/ (TextIsTruthy(d) /\ ~b64valid(d.img_bytes))

\* Sprite.from_dict
SpriteFromDict(d) == Sprite(d.name, TextToBytes(d), Get(d, "img_format", PNG))

\* from_dict with d.get("tiled", False)
BackgroundFromDict_Untiled(d) ==
    BackgroundResource(d.name, Get(d, "mode", "color"),
                       IF Get(d, "color", <<>>) # <<>> THEN d.color ELSE DefaultColor,
                       TextToBytes(d), Get(d, "img_format", PNG), Get(d, "tiled", FALSE))

\* BackgroundResource.from_dict
BackgroundFromDict(d) ==
    BackgroundResource(d.name, Get(d, "mode", "color"),
                       IF Get(d, "color", <<>>) # <<>> THEN d.color ELSE DefaultColor,
                       TextToBytes(d), Get(d, "img_format", PNG), Get(d, "tiled", TRUE))

ObjectRaises(d) == ~Has(d, "name") \/ ~Has(d, "sprite_index")

\* 0 <= inst["object_index"] < len(self.objects), without the lower test
InstanceKept_NoLower(inst, nobj) == inst.object_index < nobj

\* 0 <= inst["object_index"] < len(self.objects)
InstanceKept(inst, nobj) == 0 <= inst.object_index /\ inst.object_index < nobj

\* KeyError, or TypeError when object_index is null; x and y are read only if kept
InstanceRaises(inst, nobj) ==
    \/ ~Has(inst, "object_index")
    \/ inst.object_index = None
    \/ (InstanceKept(inst, nobj) /\ (~Has(inst, "x") \/ ~Has(inst, "y")))

LevelRaises(d, nobj) ==
    \/ ~Has(d, "name") \/ ~Has(d, "width") \/ ~Has(d, "height") \/ ~Has(d, "instances")
    \/ \E i \in 1..Len(d.instances) : InstanceRaises(d.instances[i], nobj)

RECURSIVE LoadInstances(_, _)
LoadInstances(ds, nobj) ==
    IF ds = <<>> THEN <<>>
    ELSE (IF InstanceKept(ds[1], nobj)
          THEN <<GameObjectInstance(ds[1].x, ds[1].y, ds[1].object_index)>>
          ELSE <<>>) \o LoadInstances(Tail(ds), nobj)

LevelFromDict(d, nobj) ==
    [Level(d.name, d.width, d.height, Get(d, "background_index", None))
        EXCEPT !.instances = LoadInstances(d.instances, nobj)]

(* One of the four loops of open_project over data[key], n entries long,  *)
(* of which those in bad raise: how many entries are built before the      *)
(* first that raises, and whether one raised (also when the key is         *)
(* missing).                                                               *)
LoadLoop(present, n, bad) ==
    IF ~present THEN [count |-> 0, failed |-> TRUE]
    ELSE [count |-> IF bad = {} THEN n
                    ELSE (CHOOSE i \in bad : \A j \in bad : i <= j) - 1,
          failed |-> bad # {}]

\* self.selected_x_index = data.get(key); if the list is non-empty and it is None, 0
LoadSelection(data, key, loaded) ==
    LET got == Get(data, key, None)
    IN  IF loaded # <<>> /\ got = None THEN 0 ELSE got

(* open_project. stage is where the try block raised: 1 reading or parsing  *)
(* the file, 2 to 5 in the loop over backgrounds, sprites, objects, levels; *)
(* 0 when it did not. Each loop starts by emptying its list.               *)
open_project(chosen) ==
    LET unread == ~file.written \/ ~file.parses
        data == file.data
        bgd == Get(data, "backgrounds", <<>>)
        spd == Get(data, "sprites", <<>>)
        obd == Get(data, "objects", <<>>)
        lvd == Get(data, "levels", <<>>)
        bgl == LoadLoop(Has(data, "backgrounds"), Len(bgd),
                        {i \in 1..Len(bgd) : FromDictRaises(bgd[i])})
        spl == LoadLoop(Has(data, "sprites"), Len(spd),
                        {i \in 1..Len(spd) : FromDictRaises(spd[i])})
        obl == LoadLoop(Has(data, "objects"), Len(obd),
                        {i \in 1..Len(obd) : ObjectRaises(obd[i])})
        nobj == obl.count
        lvl == LoadLoop(Has(data, "levels"), Len(lvd),
                        {i \in 1..Len(lvd) : LevelRaises(lvd[i], nobj)})
        bgs == [items |-> [i \in 1..bgl.count |-> BackgroundFromDict(bgd[i])],
                failed |-> bgl.failed]
        sps == [items |-> [i \in 1..spl.count |-> SpriteFromDict(spd[i])],
                failed |-> spl.failed]
        obs == [items |-> [i \in 1..obl.count |->
                              GameObjectType(obd[i].name, obd[i].sprite_index)],
                failed |-> obl.failed]
        lvs == [items |-> [i \in 1..lvl.count |-> LevelFromDict(lvd[i], nobj)],
                failed |-> lvl.failed]
        stage == IF unread THEN 1 ELSE IF bgs.failed THEN 2 ELSE IF sps.failed THEN 3
                 ELSE IF obs.failed THEN 4 ELSE IF lvs.failed THEN 5 ELSE 0
    IN  /\ Idle
        /\ IF ~chosen
           THEN /\ UNCHANGED <<doc_vars, sel_vars>>
                /\ last' = Did("open_project", None, FALSE)
           ELSE /\ backgrounds' = IF stage = 1 THEN backgrounds ELSE bgs.items
                /\ sprites' = IF stage \in {1, 2} THEN sprites ELSE sps.items
                /\ objects' = IF stage \in {1, 2, 3} THEN objects ELSE obs.items
                /\ levels' = IF stage \in {1, 2, 3, 4} THEN levels ELSE lvs.items
                /\ IF stage = 0
                   THEN /\ selected_level_index' =
                               LoadSelection(data, "selected_level_index", lvs.items)
                        /\ selected_object_index' =
                               LoadSelection(data, "selected_object_index", obs.items)
                        /\ selected_background_index' =
                               LoadSelection(data, "selected_background_index", bgs.items)
                   ELSE UNCHANGED <<selected_level_index, selected_object_index,
                                    selected_background_index>>
                /\ UNCHANGED selected_sprite_index
                /\ last' = Did("open_project", stage, stage = 0)
        /\ UNCHANGED <<canvas_vars, pc, dlg_idx, hist_vars>>

\* the project file is edited by hand, outside the editor
HandEdit(text) ==
    /\ Idle
    /\ file' = text
    /\ last' = Did("hand_edit", None, TRUE)
    /\ UNCHANGED <<doc_vars, sel_vars, canvas_vars, pc, dlg_idx, saved, painted>>

----------------------------------------------------------------------------
(* GameMakerIDE.__init__: the default project. *)

Str_Background1 == <<"B", "a", "c", "k", "g", "r", "o", "u", "n", "d", " ", "1">>
Str_Level1 == <<"L", "e", "v", "e", "l", " ", "1">>
Str_Object1 == <<"O", "b", "j", "e", "c", "t", " ", "1">>
Str_Sprite1 == <<"S", "p", "r", "i", "t", "e", " ", "1">>
Str_Sprite2 == <<"S", "p", "r", "i", "t", "e", " ", "2">>

DefaultProject ==
    /\ backgrounds = <<BackgroundResource(Str_Background1, "color", DefaultColor, NoBytes, PNG, TRUE)>>
    /\ levels = <<Level(Str_Level1, 640, 360, 0)>>
    /\ objects = <<GameObjectType(Str_Object1, None)>>
    /\ sprites = <<Sprite(Str_Sprite1, NoBytes, PNG)>>
    /\ selected_sprite_index = None
    /\ selected_object_index = 0
    /\ selected_level_index = 0
    /\ selected_background_index = None
    /\ dragged = FALSE
    /\ drag_offset = <<0, 0>>
    /\ grid_size = 32
    /\ mouse_down = FALSE
    /\ file = NoFile
    /\ pc = "idle"
    /\ dlg_idx = None
    /\ painted = [result |-> "never", pc |-> "idle", drawn |-> 0]
    /\ saved = NoFile

Init ==
    /\ DefaultProject
    /\ last = [op |-> "init", idx |-> None, done |-> TRUE, pre |-> Snapshot]

InitUntracked == DefaultProject /\ last = NoHistory

\* the history keeps the last operation without the document before it
InitBrief == DefaultProject /\ last = [op |-> "init", idx |-> None, done |-> TRUE]

----------------------------------------------------------------------------
(* The editor without load and save: every handler, with the inputs of the *)
(* dialogs and of the pointer drawn from small sets.                       *)

Blank == <<" ">>
GoodSize == <<[int |-> TRUE, val |-> 640], [int |-> TRUE, val |-> 360]>>
BadSize == <<[int |-> FALSE, val |-> 0]>>
EditPoints == {<<5, 5>>}

RECURSIVE CountInstances(_)
CountInstances(lvls) ==
    IF lvls = <<>> THEN 0 ELSE Len(lvls[1].instances) + CountInstances(Tail(lvls))

Entities == Len(sprites) + Len(backgrounds) + Len(objects) + Len(levels)
            + CountInstances(levels)

\* the click places no instance
PlacesNone(px, py) ==
    LET cur == get_current_level
    IN  IF cur = None THEN TRUE
        ELSE HitScan(levels[cur + 1].instances, px, py) # 0

Room == Entities < MaxEntities

NextEdit ==
    \/ \E a \in BOOLEAN :
          /\ Room
          /\ add_background(a, Str_Background1, "color", DefaultColor, NoBytes, PNG, TRUE)
    \/ /\ Room
       /\ bg_dropEvent(Str_Background1, NoBytes, PNG)
    \/ \E a \in BOOLEAN :
          edit_background(a, Str_Background1, "color", DefaultColor, NoBytes, PNG, TRUE)
    \/ \E ok \in BOOLEAN, n \in {Blank, Str_Background1} : rename_background(ok, n)
    \/ \E c \in BOOLEAN : delete_background(c)
    \/ \E r \in 0..(MaxEntities - 1) : on_background_selected(r)
    \/ \E a \in BOOLEAN :
          /\ Room
          /\ add_sprite(a, Str_Sprite2, NoBytes, PNG)
    \/ /\ Room
       /\ sprite_dropEvent(Str_Sprite2, NoBytes, PNG)
    \/ \E a \in BOOLEAN : edit_sprite(a, Str_Sprite2, NoBytes, PNG)
    \/ \E ok \in BOOLEAN, n \in {Blank, Str_Sprite2} : rename_sprite(ok, n)
    \/ \E c \in BOOLEAN : delete_sprite(c)
    \/ \E r \in 0..(MaxEntities - 1) : on_sprite_selected(r)
    \/ \E ok \in BOOLEAN, n \in {Blank, Str_Object1} :
          /\ Room
          /\ add_object(ok, n)
    \/ \E a \in BOOLEAN, r \in 0..MaxEntities : edit_object(a, r)
    \/ \E ok \in BOOLEAN, n \in {Blank, Str_Object1} : rename_object(ok, n)
    \/ \E c \in BOOLEAN : delete_object(c)
    \/ \E r \in 0..(MaxEntities - 1) : on_object_selected(r)
    \/ \E ok \in BOOLEAN, n \in {Blank, Str_Level1} :
          /\ Room
          /\ add_level(ok, n)
    \/ \E ok \in BOOLEAN, n \in {Blank, Str_Level1} : rename_level(ok, n)
    \/ \E a \in BOOLEAN, f \in {GoodSize, BadSize} : set_level_screen_size(a, f)
    \/ \E ok \in BOOLEAN, i \in 0..(MaxEntities - 1) : set_level_background(ok, i)
    \/ \E c \in BOOLEAN : delete_level(c)
    \/ \E r \in 0..(MaxEntities - 1) : on_level_selected(r)
    \/ \E b \in {"left", "right"}, p \in EditPoints :
          /\ Room \/ PlacesNone(p[1], p[2])
          /\ mousePressEvent(b, p[1], p[2])
    \/ \E p \in EditPoints : mouseMoveEvent(p[1], p[2])
    \/ mouseReleaseEvent

SpecEdit == InitUntracked /\ [][NextEdit]_vars

----------------------------------------------------------------------------
(* C1: after every editor action from the default project (no load), every *)
(* object type's sprite_index is None or an index into sprites, every      *)
(* level's background_index is None or an index into backgrounds, and      *)
(* every instance's object_index is an index into objects.                 *)
Thm_C1_ReferencesValid ==
    /\ \A i \in 1..Len(objects) :
          \/ objects[i].sprite_index = None
          \/ objects[i].sprite_index \in 0..(Len(sprites) - 1)
    /\ \A l \in 1..Len(levels) :
          /\ \/ levels[l].background_index = None
             \/ levels[l].background_index \in 0..(Len(backgrounds) - 1)
          /\ \A i \in 1..Len(levels[l].instances) :
                levels[l].instances[i].object_index \in 0..(Len(objects) - 1)

\* The default sprite and background have been deleted, and instances of a
\* second object type stand in a level.
Wit_C1 ==
    /\ sprites = <<>> /\ backgrounds = <<>>
    /\ Len(objects) = 2
    /\ \E l \in 1..Len(levels) : \E i \in 1..Len(levels[l].instances) :
          levels[l].instances[i].object_index = 1

----------------------------------------------------------------------------
(* Sprites and the object types that reference them. *)

NextSprites ==
    \/ \E a \in BOOLEAN, n \in {Str_Sprite1, Str_Sprite2} :
          /\ Len(sprites) < MaxSprites
          /\ add_sprite(a, n, NoBytes, PNG)
    \/ \E r \in 0..(MaxSprites - 1) : on_sprite_selected(r)
    \/ \E c \in BOOLEAN : delete_sprite(c)
    \/ \E ok \in BOOLEAN :
          /\ Len(objects) < MaxObjects
          /\ add_object(ok, Str_Object1)
    \/ \E r \in 0..(MaxObjects - 1) : on_object_selected(r)
    \/ \E a \in BOOLEAN, r \in 0..MaxSprites : edit_object(a, r)

SpecSprites == Init /\ [][NextSprites]_vars

(* C2: a confirmed delete of the sprite at a valid index k removes exactly *)
(* that sprite; an object type's sprite_index k becomes None, one above k  *)
(* goes down by 1, one below k or None stays; an object type that          *)
(* referenced another sprite still references that sprite.                 *)
Thm_C2_DeleteSpriteCascade ==
    (last.op = "delete_sprite" /\ last.done) =>
        LET k == last.idx
            pre == last.pre
        IN  /\ k \in 0..(Len(pre.sprites) - 1)
            /\ Len(sprites) = Len(pre.sprites) - 1
            /\ \A i \in 1..Len(sprites) :
                  sprites[i] = pre.sprites[IF i <= k THEN i ELSE i + 1]
            /\ Len(objects) = Len(pre.objects)
            /\ \A i \in 1..Len(objects) :
                  LET b == pre.objects[i].sprite_index
                      a == objects[i].sprite_index
                  IN  /\ objects[i].name = pre.objects[i].name
                      /\ b = k => a = None
                      /\ (b # None /\ b > k) => a = b - 1
                      /\ (b = None \/ b < k) => a = b
                      /\ (b # None /\ b # k) => sprites[a + 1] = pre.sprites[b + 1]

\* Sprite 0 of two was deleted while one object type used it and another used sprite 1.
Wit_C2 ==
    /\ last.op = "delete_sprite" /\ last.done /\ last.idx = 0
    /\ \E i, j \in 1..Len(last.pre.objects) :
          /\ last.pre.objects[i].sprite_index = 0
          /\ last.pre.objects[j].sprite_index = 1

----------------------------------------------------------------------------
(* Object types and the instances placed in levels. Object types without a  *)
(* sprite are never hit, so every left click places an instance.           *)

ObjectPoints == {<<5, 5>>, <<70, 5>>}

NextObjects ==
    \/ \E ok \in BOOLEAN :
          /\ Len(objects) < MaxObjects
          /\ add_object(ok, Str_Object1)
    \/ \E r \in 0..(MaxObjects - 1) : on_object_selected(r)
    \/ \E c \in BOOLEAN : delete_object(c)
    \/ \E ok \in BOOLEAN :
          /\ Len(levels) < MaxLevels
          /\ add_level(ok, Str_Level1)
    \/ \E r \in 0..(MaxLevels - 1) : on_level_selected(r)
    \/ \E p \in ObjectPoints :
          /\ CountInstances(levels) < MaxInstances
          /\ mousePressEvent("left", p[1], p[2])
    \/ mouseReleaseEvent

SpecObjects == Init /\ [][NextObjects]_vars

(* C3: a confirmed delete of the object type at a valid index k removes,   *)
(* in every level, the instances of type k, lowers by 1 the object_index   *)
(* of the instances of a type above k, leaves the others, and keeps the    *)
(* order and the positions of the instances that remain.                   *)
Thm_C3_DeleteObjectCascade ==
    (last.op = "delete_object" /\ last.done) =>
        LET k == last.idx
            pre == last.pre
        IN  /\ k \in 0..(Len(pre.objects) - 1)
            /\ Len(objects) = Len(pre.objects) - 1
            /\ \A i \in 1..Len(objects) :
                  objects[i] = pre.objects[IF i <= k THEN i ELSE i + 1]
            /\ Len(levels) = Len(pre.levels)
            /\ \A l \in 1..Len(levels) :
                  LET P == pre.levels[l].instances
                      Q == levels[l].instances
                      kept == {i \in 1..Len(P) : P[i].object_index # k}
                  IN  /\ Len(Q) = Cardinality(kept)
                      /\ \A i \in kept :
                            LET j == Cardinality({m \in kept : m <= i})
                            IN  /\ Q[j].x = P[i].x
                                /\ Q[j].y = P[i].y
                                /\ Q[j].object_index =
                                       IF P[i].object_index > k
                                       THEN P[i].object_index - 1
                                       ELSE P[i].object_index

\* Type 0 of two was deleted; one level held an instance of each type, and
\* there were two levels.
Wit_C3 ==
    /\ last.op = "delete_object" /\ last.done /\ last.idx = 0
    /\ Len(last.pre.levels) = 2
    /\ \E l \in 1..2 : \E i, j \in 1..Len(last.pre.levels[l].instances) :
          /\ last.pre.levels[l].instances[i].object_index = 0
          /\ last.pre.levels[l].instances[j].object_index = 1

----------------------------------------------------------------------------
(* Backgrounds and the levels that reference them. *)

NextBackgrounds ==
    \/ \E a \in BOOLEAN :
          /\ Len(backgrounds) < MaxBackgrounds
          /\ add_background(a, Str_Background1, "color", DefaultColor, NoBytes, PNG, TRUE)
    \/ \E r \in 0..(MaxBackgrounds - 1) : on_background_selected(r)
    \/ \E c \in BOOLEAN : delete_background(c)
    \/ \E ok \in BOOLEAN :
          /\ Len(levels) < MaxLevels
          /\ add_level(ok, Str_Level1)
    \/ \E r \in 0..(MaxLevels - 1) : on_level_selected(r)
    \/ \E ok \in BOOLEAN, i \in 0..(MaxBackgrounds - 1) : set_level_background(ok, i)
    \/ /\ CountInstances(levels) < MaxInstances
       /\ mousePressEvent("left", 5, 5)
    \/ mouseReleaseEvent

SpecBackgrounds == Init /\ [][NextBackgrounds]_vars

(* C4: a confirmed delete of the background at a valid index k sets to     *)
(* None the background_index of the levels that had k, lowers by 1 those   *)
(* above k, leaves the others, and leaves the instances of every level,    *)
(* the sprites and the object types as they were.                          *)
Thm_C4_DeleteBackgroundCascade ==
    (last.op = "delete_background" /\ last.done) =>
        LET k == last.idx
            pre == last.pre
        IN  /\ k \in 0..(Len(pre.backgrounds) - 1)
            /\ Len(backgrounds) = Len(pre.backgrounds) - 1
            /\ sprites = pre.sprites
            /\ objects = pre.objects
            /\ Len(levels) = Len(pre.levels)
            /\ \A l \in 1..Len(levels) :
                  LET b == pre.levels[l].background_index
                      a == levels[l].background_index
                  IN  /\ levels[l].instances = pre.levels[l].instances
                      /\ b = k => a = None
                      /\ (b # None /\ b > k) => a = b - 1
                      /\ (b = None \/ b < k) => a = b

\* Background 0 of two was deleted; one level used it, another used background 1,
\* and a level held an instance.
Wit_C4 ==
    /\ last.op = "delete_background" /\ last.done /\ last.idx = 0
    /\ \E l, m \in 1..Len(last.pre.levels) :
          /\ last.pre.levels[l].background_index = 0
          /\ last.pre.levels[m].background_index = 1
    /\ \E l \in 1..Len(levels) : levels[l].instances # <<>>

(* C21: set_level_background stores in the current level an index into    *)
(* backgrounds and changes nothing else; when there is no background, no   *)
(* current level, or the dialog is cancelled, the document stays as it     *)
(* was.                                                                    *)
Thm_C21_BackgroundIndexValid ==
    (last.op = "set_level_background") =>
        LET pre == last.pre
            cur == last.idx
        IN  /\ (pre.backgrounds = <<>> \/ cur = None) => ~last.done
            /\ IF last.done
               THEN /\ levels[cur + 1].background_index \in 0..(Len(backgrounds) - 1)
                    /\ Snapshot = [pre EXCEPT !.levels[cur + 1].background_index =
                                                  levels[cur + 1].background_index]
               ELSE Snapshot = pre

\* The current level, left without a background by a delete, was given
\* background 1 of two.
Wit_C21 ==
    /\ last.op = "set_level_background" /\ last.done
    /\ last.pre.levels[last.idx + 1].background_index = None
    /\ levels[last.idx + 1].background_index = 1
    /\ Len(backgrounds) = 2

----------------------------------------------------------------------------
(* Loading project files that were edited by hand. *)

JBackground ==
    [name |-> Str_Background1, mode |-> "color", color |-> DefaultColor,
     img_bytes |-> NoText, img_format |-> PNG, tiled |-> TRUE]

JSprite == [name |-> Str_Sprite1, img_bytes |-> NoText, img_format |-> PNG]

JObject(sprite_index) == [name |-> Str_Object1, sprite_index |-> sprite_index]

JInstance(x, object_index) == [x |-> x, y |-> 0, object_index |-> object_index]

JLevel(background_index, instances) ==
    [name |-> Str_Level1, width |-> 640, height |-> 360,
     background_index |-> background_index, instances |-> instances]

JDoc(bgs, sps, obs, lvs, sel) ==
    [backgrounds |-> bgs, sprites |-> sps, objects |-> obs, levels |-> lvs,
     selected_level_index |-> sel, selected_object_index |-> sel,
     selected_background_index |-> sel]

\* the record without one key
Drop(d, key) == [k \in DOMAIN d \ {key} |-> d[k]]

JInstances == <<JInstance(0, 0), JInstance(32, 1)>>

BaseDoc ==
    JDoc(<<JBackground>>, <<JSprite>>, <<JObject(0), JObject(None)>>,
         <<JLevel(0, JInstances)>>, 0)

\* a document without the keys that the load reads with get()
BareDoc ==
    [backgrounds |-> <<Drop(Drop(JBackground, "img_format"), "tiled")>>,
     sprites |-> <<Drop(JSprite, "img_format")>>,
     objects |-> <<JObject(0)>>,
     levels |-> <<Drop(JLevel(0, <<JInstance(0, 0)>>), "background_index")>>]

EmptyBareDoc == [backgrounds |-> <<>>, sprites |-> <<>>, objects |-> <<>>, levels |-> <<>>]

\* instance lists with object_index values out of range, null or missing
EditedInstances ==
    {<<JInstance(0, 0), JInstance(32, oi), JInstance(64, 1)>> : oi \in {-1, 2, 0}}
    \cup {<<JInstance(0, 2), JInstance(32, -1)>>,
          <<JInstance(0, 0), Drop(JInstance(32, 1), "object_index")>>,
          <<JInstance(0, 0), JInstance(32, None)>>,
          <<Drop(JInstance(0, 7), "x"), JInstance(32, 1)>>,
          <<Drop(JInstance(0, 0), "x")>>}

ImageText == b64encode(<<5, 7>>)
BrokenText == <<20, 28, 0>>

EditedDocs ==
    {BaseDoc, BareDoc, EmptyBareDoc}
    \cup {Drop(BaseDoc, k) : k \in DOMAIN BaseDoc}
    \cup {[BaseDoc EXCEPT !.objects = <<JObject(si), JObject(None)>>] : si \in {1, -1, 5}}
    \cup {[BaseDoc EXCEPT !.objects = <<JObject(0), Drop(JObject(0), "sprite_index")>>],
          [BaseDoc EXCEPT !.objects = <<Drop(JObject(0), "name")>>]}
    \cup {[BaseDoc EXCEPT !.levels = <<JLevel(bg, JInstances)>>] : bg \in {None, 1, -1}}
    \cup {[BaseDoc EXCEPT !.levels = <<JLevel(0, is)>>] : is \in EditedInstances}
    \cup {[BaseDoc EXCEPT !.levels = <<JLevel(0, <<>>), JLevel(None, JInstances)>>],
          [BaseDoc EXCEPT !.levels = <<JLevel(0, JInstances), Drop(JLevel(0, <<>>), "width")>>],
          [BaseDoc EXCEPT !.levels = <<Drop(JLevel(0, JInstances), "background_index")>>]}
    \cup {[BaseDoc EXCEPT !.selected_level_index = v] : v \in {None, 1, 5, -1}}
    \cup {[BaseDoc EXCEPT !.selected_object_index = v] : v \in {None, 1, 2, -1}}
    \cup {[BaseDoc EXCEPT !.selected_background_index = v] : v \in {None, 1, -1}}
    \cup {JDoc(<<>>, <<>>, <<>>, <<>>, v) : v \in {None, 0, 3}}
    \cup {[BaseDoc EXCEPT !.sprites = <<[JSprite EXCEPT !.img_bytes = t]>>] :
             t \in {ImageText, BrokenText, <<>>}}
    \cup {[BaseDoc EXCEPT !.sprites = <<JSprite, Drop(JSprite, "name")>>],
          [BaseDoc EXCEPT !.sprites = <<Drop(Drop(JSprite, "img_format"), "img_bytes")>>],
          [BaseDoc EXCEPT !.backgrounds = <<Drop(Drop(Drop(JBackground, "tiled"), "mode"), "color")>>],
          [BaseDoc EXCEPT !.backgrounds =
              <<JBackground, [JBackground EXCEPT !.img_bytes = BrokenText]>>]}

HandEdited == {Unparseable} \cup {Parsed(d) : d \in EditedDocs}

NextLoad ==
    \/ \E text \in HandEdited : HandEdit(text)
    \/ \E chosen \in BOOLEAN : open_project(chosen)

SpecLoad == Init /\ [][NextLoad]_vars

Opened == last.op = "open_project" /\ last.done

(* C5: a load that fails leaves the document and the selection as they     *)
(* were before it.                                                         *)
Cex_C5_FailedLoadKeepsDocument ==
    (last.op = "open_project" /\ ~last.done) => Snapshot = last.pre

(* C6: after a load that succeeded, every level's background_index is None *)
(* or an index into backgrounds, and every object type's sprite_index is   *)
(* None or an index into sprites.                                          *)
Cex_C6_LoadedReferencesValid ==
    Opened =>
        /\ \A l \in 1..Len(levels) :
              \/ levels[l].background_index = None
              \/ levels[l].background_index \in 0..(Len(backgrounds) - 1)
        /\ \A i \in 1..Len(objects) :
              \/ objects[i].sprite_index = None
              \/ objects[i].sprite_index \in 0..(Len(sprites) - 1)

(* C7: after a load that succeeded, each selected index is an index into   *)
(* its collection, or None when the collection is empty.                   *)
Cex_C7_LoadedSelectionValid ==
    Opened =>
        /\ IF levels = <<>> THEN selected_level_index = None
           ELSE selected_level_index \in 0..(Len(levels) - 1)
        /\ IF objects = <<>> THEN selected_object_index = None
           ELSE selected_object_index \in 0..(Len(objects) - 1)
        /\ IF backgrounds = <<>> THEN selected_background_index = None
           ELSE selected_background_index \in 0..(Len(backgrounds) - 1)

\* every key open_project reads is in the document, and no object_index is null
Complete(data) ==
    /\ {"backgrounds", "sprites", "objects", "levels"} \subseteq DOMAIN data
    /\ \A i \in 1..Len(data.backgrounds) : ~FromDictRaises(data.backgrounds[i])
    /\ \A i \in 1..Len(data.sprites) : ~FromDictRaises(data.sprites[i])
    /\ \A i \in 1..Len(data.objects) :
          {"name", "sprite_index"} \subseteq DOMAIN data.objects[i]
    /\ \A l \in 1..Len(data.levels) :
          /\ {"name", "width", "height", "instances"} \subseteq DOMAIN data.levels[l]
          /\ \A i \in 1..Len(data.levels[l].instances) :
                /\ {"x", "y", "object_index"} \subseteq DOMAIN data.levels[l].instances[i]
                /\ data.levels[l].instances[i].object_index # None

(* C8: a load of a complete document succeeds whatever the object_index    *)
(* values of its instances are; after a load that succeeded, each level    *)
(* holds, in the order of the file and with the x, y and object_index of   *)
(* the file, exactly the instances of the file whose object_index is an    *)
(* index into the loaded object types.                                     *)
Thm_C8_InvalidInstancesDropped ==
    /\ (last.op = "open_project" /\ last.idx # None /\ file.written /\ file.parses
           /\ Complete(file.data)) => last.done
    /\ Opened =>
          /\ Len(levels) = Len(file.data.levels)
          /\ \A l \in 1..Len(levels) :
                LET P == file.data.levels[l].instances
                    Q == levels[l].instances
                    kept == {i \in 1..Len(P) :
                                P[i].object_index \in 0..(Len(objects) - 1)}
                IN  /\ Len(Q) = Cardinality(kept)
                    /\ \A i \in kept :
                          LET j == Cardinality({m \in kept : m <= i})
                          IN  /\ Q[j].x = P[i].x
                              /\ Q[j].y = P[i].y
                              /\ Q[j].object_index = P[i].object_index

\* A file was loaded in which a negative object_index stood between two
\* valid instances, and the two were kept.
Wit_C8 ==
    /\ Opened
    /\ \E l \in 1..Len(levels) :
          LET P == file.data.levels[l].instances
          IN  /\ Len(P) = 3 /\ P[2].object_index = -1
              /\ Len(levels[l].instances) = 2
              /\ levels[l].instances[2].x = P[3].x

(* C25: a load of a complete document succeeds. After a load that         *)
(* succeeded, a selection index whose key is not in the file is 0 if its   *)
(* collection is not empty and None if it is; a level without a            *)
(* background_index key has background_index None; a background without a  *)
(* tiled key is tiled; a background or a sprite without an img_format key  *)
(* has img_format PNG.                                                     *)
Thm_C25_LoadDefaults ==
    LET d == file.data
        sel(key, coll, now) == ~Has(d, key) => now = (IF coll # <<>> THEN 0 ELSE None)
    IN  /\ (/\ last.op = "open_project" /\ last.idx # None
            /\ file.written /\ file.parses /\ Complete(d)) => Opened
        /\ Opened =>
              /\ sel("selected_level_index", levels, selected_level_index)
              /\ sel("selected_object_index", objects, selected_object_index)
              /\ sel("selected_background_index", backgrounds, selected_background_index)
              /\ \A l \in 1..Len(levels) :
                    ~Has(d.levels[l], "background_index") => levels[l].background_index = None
              /\ \A i \in 1..Len(backgrounds) :
                    /\ ~Has(d.backgrounds[i], "tiled") => backgrounds[i].tiled = TRUE
                    /\ ~Has(d.backgrounds[i], "img_format") => backgrounds[i].img_format = PNG
              /\ \A i \in 1..Len(sprites) :
                    ~Has(d.sprites[i], "img_format") => sprites[i].img_format = PNG

\* The file without any of these keys was loaded: its level, object type
\* and background are selected, the level shows no background, the
\* background is tiled, and the images are PNG.
Wit_C25 ==
    /\ Opened /\ file.data = BareDoc
    /\ selected_level_index = 0 /\ selected_object_index = 0
    /\ selected_background_index = 0
    /\ levels[1].background_index = None
    /\ backgrounds[1].tiled = TRUE /\ backgrounds[1].img_format = PNG
    /\ sprites[1].img_format = PNG

----------------------------------------------------------------------------
(* Saving a document made in the editor and loading the file again. *)

SpriteImages == {<<<<>>, PNG>>, <<<<5, 7>>, GIF>>}
BackgroundImage == <<200, 100, 7, 9>>
OtherColor == <<10, 20, 30, 255>>

\* the session edits a document, saves it, and then selects, deletes, saves and loads
Editing == ~file.written

NextRoundTrip ==
    \/ Editing /\ on_sprite_selected(0)
    \/ \E im \in SpriteImages : Editing /\ edit_sprite(TRUE, Str_Sprite1, im[1], im[2])
    \/ Editing /\ on_background_selected(0)
    \/ /\ Editing
       /\ edit_background(TRUE, Str_Background1, "image", OtherColor, BackgroundImage, PNG, FALSE)
    \/ /\ Editing
       /\ Len(objects) < MaxObjects
       /\ add_object(TRUE, Str_Object1)
    \/ /\ Editing
       /\ CountInstances(levels) < MaxInstances
       /\ mousePressEvent("left", 70, 5)
    \/ mouseReleaseEvent
    \/ delete_object(TRUE)
    \/ \E r \in 0..(MaxObjects - 1) : on_object_selected(r)
    \/ save_project(TRUE, "ok")
    \/ open_project(TRUE)

SpecRoundTrip == InitBrief /\ [][NextRoundTrip]_vars

\* at least one entry per collection and one instance per level
Populated(doc) ==
    /\ doc.backgrounds # <<>> /\ doc.sprites # <<>>
    /\ doc.objects # <<>> /\ doc.levels # <<>>
    /\ \A l \in 1..Len(doc.levels) : doc.levels[l].instances # <<>>

\* the load that just succeeded read the file that save wrote from a populated document
Reloaded == Opened /\ saved # NoFile /\ Populated(saved)

\* the fields of the document other than image bytes and selection are those saved
SameContent(doc) ==
    /\ Len(backgrounds) = Len(doc.backgrounds)
    /\ \A i \in 1..Len(backgrounds) :
          /\ backgrounds[i].name = doc.backgrounds[i].name
          /\ backgrounds[i].mode = doc.backgrounds[i].mode
          /\ backgrounds[i].color = doc.backgrounds[i].color
          /\ backgrounds[i].img_format = doc.backgrounds[i].img_format
          /\ backgrounds[i].tiled = doc.backgrounds[i].tiled
    /\ Len(sprites) = Len(doc.sprites)
    /\ \A i \in 1..Len(sprites) :
          /\ sprites[i].name = doc.sprites[i].name
          /\ sprites[i].img_format = doc.sprites[i].img_format
    /\ objects = doc.objects
    /\ Len(levels) = Len(doc.levels)
    /\ \A l \in 1..Len(levels) :
          /\ levels[l].name = doc.levels[l].name
          /\ levels[l].width = doc.levels[l].width
          /\ levels[l].height = doc.levels[l].height
          /\ levels[l].background_index = doc.levels[l].background_index
          /\ Len(levels[l].instances) = Len(doc.levels[l].instances)
          /\ \A i \in 1..Len(levels[l].instances) :
                /\ levels[l].instances[i].x = doc.levels[l].instances[i].x
                /\ levels[l].instances[i].y = doc.levels[l].instances[i].y
                /\ levels[l].instances[i].object_index =
                       doc.levels[l].instances[i].object_index

(* C9 as stated: loading what save wrote from a populated document gives   *)
(* the saved collections, fields, image bytes, foreign keys, instances and *)
(* selection, a selection that was None at save time included.             *)
Cex_C9_RoundTripExact ==
    Reloaded =>
        /\ SameContent(saved)
        /\ \A i \in 1..Len(backgrounds) :
              backgrounds[i].img_bytes = saved.backgrounds[i].img_bytes
        /\ \A i \in 1..Len(sprites) : sprites[i].img_bytes = saved.sprites[i].img_bytes
        /\ selected_level_index = saved.selected_level_index
        /\ selected_object_index = saved.selected_object_index
        /\ selected_background_index = saved.selected_background_index

\* image bytes after a round trip: the empty byte string comes back as None
ReloadedBytes(b) == IF b = <<>> THEN NoBytes ELSE b

\* a selection after a round trip into a populated document: None comes back as 0
ReloadedSelection(sel) == IF sel = None THEN 0 ELSE sel

(* C9: loading what save wrote from a populated document gives the saved   *)
(* collections in the saved order with the saved names, modes, colors,     *)
(* formats, tiled flags, sizes, foreign keys and instances; the saved      *)
(* image bytes, except that an empty byte string is loaded as None; and    *)
(* the saved level, object and background selection, except that a         *)
(* selection that was None is loaded as 0.                                 *)
Thm_C9_RoundTrip ==
    Reloaded =>
        /\ SameContent(saved)
        /\ \A i \in 1..Len(backgrounds) :
              backgrounds[i].img_bytes = ReloadedBytes(saved.backgrounds[i].img_bytes)
        /\ \A i \in 1..Len(sprites) :
              sprites[i].img_bytes = ReloadedBytes(saved.sprites[i].img_bytes)
        /\ selected_level_index = ReloadedSelection(saved.selected_level_index)
        /\ selected_object_index = ReloadedSelection(saved.selected_object_index)
        /\ selected_background_index = ReloadedSelection(saved.selected_background_index)

\* A document with image bytes in a sprite and in a background, an edited
\* background, two object types with an instance and a selected background
\* was saved and loaded again, and its images came back.
Wit_C9 ==
    /\ Reloaded
    /\ Len(saved.sprites[1].img_bytes) = 2
    /\ saved.backgrounds[1].img_bytes = BackgroundImage
    /\ backgrounds[1].img_bytes = BackgroundImage
    /\ ~saved.backgrounds[1].tiled
    /\ Len(saved.objects) = 2
    /\ saved.selected_background_index = 0

----------------------------------------------------------------------------
(* Handlers split at their modal dialog. exec_(), QMessageBox.question and  *)
(* QInputDialog.getText run a nested event loop: the window takes no input, *)
(* but animation_timer keeps firing and the canvas is repainted. The step   *)
(* _open runs the handler up to the dialog, the step _answer from the       *)
(* dialog's return to the end of the handler.                              *)

OpenDialog(name, idx) ==
    /\ Idle
    /\ pc' = name
    /\ dlg_idx' = idx
    /\ UNCHANGED <<doc_vars, sel_vars, canvas_vars, hist_vars, last>>

CloseDialog(name, done) ==
    /\ pc' = "idle"
    /\ dlg_idx' = None
    /\ last' = Did(name, dlg_idx, done)
    /\ UNCHANGED <<canvas_vars, hist_vars>>

delete_object_open_Early ==
    /\ InRange(selected_object_index, objects)
    /\ Idle
    /\ pc' = "delete_object"
    /\ dlg_idx' = selected_object_index
    /\ objects' = DelAt(objects, selected_object_index)
    /\ UNCHANGED <<backgrounds, sprites, levels, sel_vars, canvas_vars, hist_vars, last>>

delete_object_open ==
    /\ InRange(selected_object_index, objects)
    /\ OpenDialog("delete_object", selected_object_index)

delete_object_answer(confirm) ==
    /\ pc = "delete_object"
    /\ IF confirm THEN delete_object_apply(dlg_idx)
                  ELSE UNCHANGED <<levels, objects, selected_object_index>>
    /\ CloseDialog("delete_object", confirm)
    /\ UNCHANGED <<backgrounds, sprites, selected_sprite_index, selected_level_index,
                   selected_background_index>>

delete_sprite_open ==
    /\ InRange(selected_sprite_index, sprites)
    /\ OpenDialog("delete_sprite", selected_sprite_index)

delete_sprite_answer(confirm) ==
    /\ pc = "delete_sprite"
    /\ IF confirm THEN delete_sprite_apply(dlg_idx)
                  ELSE UNCHANGED <<objects, sprites, selected_sprite_index>>
    /\ CloseDialog("delete_sprite", confirm)
    /\ UNCHANGED <<backgrounds, levels, selected_object_index, selected_level_index,
                   selected_background_index>>

delete_background_open ==
    /\ InRange(selected_background_index, backgrounds)
    /\ OpenDialog("delete_background", selected_background_index)

delete_background_answer(confirm) ==
    /\ pc = "delete_background"
    /\ IF confirm THEN delete_background_apply(dlg_idx)
                  ELSE UNCHANGED <<levels, backgrounds, selected_background_index>>
    /\ CloseDialog("delete_background", confirm)
    /\ UNCHANGED <<sprites, objects, selected_sprite_index, selected_object_index,
                   selected_level_index>>

delete_level_open ==
    /\ InRange(selected_level_index, levels)
    /\ OpenDialog("delete_level", selected_level_index)

delete_level_answer(confirm) ==
    /\ pc = "delete_level"
    /\ IF confirm THEN delete_level_apply(dlg_idx)
                  ELSE UNCHANGED <<levels, selected_level_index>>
    /\ CloseDialog("delete_level", confirm)
    /\ UNCHANGED <<backgrounds, sprites, objects, selected_sprite_index,
                   selected_object_index, selected_background_index>>

rename_object_open ==
    /\ InRange(selected_object_index, objects)
    /\ OpenDialog("rename_object", selected_object_index)

rename_object_answer(ok, name) ==
    /\ pc = "rename_object"
    /\ IF ok /\ StripTruthy(name)
       THEN objects' = [objects EXCEPT ![dlg_idx + 1].name = name]
       ELSE UNCHANGED objects
    /\ CloseDialog("rename_object", ok /\ StripTruthy(name))
    /\ UNCHANGED <<backgrounds, sprites, levels, sel_vars>>

\* Editor-made object types have a sprite_index that setTextValue can look up.
edit_object_open ==
    /\ InRange(selected_object_index, objects)
    /\ ~EditObjectRaises(selected_object_index)
    /\ OpenDialog("edit_object", selected_object_index)

edit_object_answer(accepted, row) ==
    /\ pc = "edit_object"
    /\ row \in 0..Len(sprites)
    /\ IF accepted THEN edit_object_apply(dlg_idx, row) ELSE UNCHANGED objects
    /\ CloseDialog("edit_object", accepted)
    /\ UNCHANGED <<backgrounds, sprites, levels, sel_vars>>

NextUI ==
    \/ paintEvent
    \/ delete_object_open
    \/ \E c \in BOOLEAN : delete_object_answer(c)
    \/ delete_sprite_open
    \/ \E c \in BOOLEAN : delete_sprite_answer(c)
    \/ delete_background_open
    \/ \E c \in BOOLEAN : delete_background_answer(c)
    \/ delete_level_open
    \/ \E c \in BOOLEAN : delete_level_answer(c)
    \/ rename_object_open
    \/ \E ok \in BOOLEAN : rename_object_answer(ok, Str_Object1)
    \/ edit_object_open
    \/ \E a \in BOOLEAN, r \in {0, 1} : edit_object_answer(a, r)
    \/ /\ Len(objects) < MaxObjects
       /\ add_object(TRUE, Str_Object1)
    \/ on_sprite_selected(0)
    \/ \E r \in 0..(MaxObjects - 1) : on_object_selected(r)
    \/ on_background_selected(0)
    \/ /\ CountInstances(levels) < MaxInstances
       /\ ~PlacesNone(70, 5)
       /\ mousePressEvent("left", 70, 5)
    \/ mouseReleaseEvent

SpecUI == InitUntracked /\ [][NextUI]_vars

\* every reference of the document is None or an index into its collection
Settled ==
    /\ \A i \in 1..Len(objects) :
          objects[i].sprite_index # None => InRange(objects[i].sprite_index, sprites)
    /\ \A l \in 1..Len(levels) :
          /\ levels[l].background_index # None =>
                InRange(levels[l].background_index, backgrounds)
          /\ \A i \in 1..Len(levels[l].instances) :
                InRange(levels[l].instances[i].object_index, objects)

(* C10: the canvas is repainted on a timer, also while a confirmation, a   *)
(* rename or an edit dialog is open; wherever a repaint or a save can run, *)
(* every reference of the document is settled, and no repaint has met a    *)
(* reference into a removed slot.                                          *)
Thm_C10_PaintSeesSettled ==
    /\ Settled
    /\ PaintResult = "clean"
    /\ painted.result \in {"never", "clean"}

\* The canvas was last repainted while the delete dialog of an object type
\* was open and drew two instances; the delete was then confirmed, and the
\* shown level holds the one instance that was of the other type.
Wit_C10 ==
    /\ painted.pc = "delete_object" /\ painted.result = "clean" /\ painted.drawn = 2
    /\ pc = "idle" /\ Len(objects) = 1
    /\ get_current_level # None
    /\ Len(levels[get_current_level + 1].instances) = 1

----------------------------------------------------------------------------
(* Documents the editor saves for the runner, which reads levels[0], the   *)
(* object type of each of its instances and the sprite of that type.       *)

\* no document of the session has been saved yet
Unsaved == saved = NoFile

NextPlayback ==
    \/ /\ Unsaved
       /\ Len(levels) < MaxLevels
       /\ add_level(TRUE, Str_Level1)
    \/ \E c \in BOOLEAN : Unsaved /\ delete_level(c)
    \/ \E r \in 0..(MaxLevels - 1) : Unsaved /\ on_level_selected(r)
    \/ /\ Unsaved
       /\ Len(objects) < MaxObjects
       /\ add_object(TRUE, Str_Object1)
    \/ Unsaved /\ delete_object(TRUE)
    \/ \E r \in 0..(MaxObjects - 1) : Unsaved /\ on_object_selected(r)
    \/ Unsaved /\ on_sprite_selected(0)
    \/ Unsaved /\ delete_sprite(TRUE)
    \/ \E r \in {0, 1} : Unsaved /\ edit_object(TRUE, r)
    \/ /\ Unsaved
       /\ CountInstances(levels) < MaxInstances
       /\ mousePressEvent("left", 70, 5)
    \/ mouseReleaseEvent
    \/ \E chosen \in BOOLEAN, outcome \in {"ok", "no_open", "no_write"} :
          save_project(chosen, outcome)

SpecPlayback == InitUntracked /\ [][NextPlayback]_vars

(* C11: every document the editor has saved has a level 0, every instance  *)
(* of level 0 references an object type of the document, and the           *)
(* sprite_index of that object type is None or references a sprite of the  *)
(* document.                                                               *)
Cex_C11_SavedPlayable ==
    saved # NoFile =>
        /\ saved.levels # <<>>
        /\ \A i \in 1..Len(saved.levels[1].instances) :
              LET oi == saved.levels[1].instances[i].object_index
              IN  /\ InRange(oi, saved.objects)
                  /\ \/ saved.objects[oi + 1].sprite_index = None
                     \/ InRange(saved.objects[oi + 1].sprite_index, saved.sprites)

----------------------------------------------------------------------------
(* Resizing levels. *)

IntField(v) == [int |-> TRUE, val |-> v]
NotIntField == [int |-> FALSE, val |-> 0]

\* texts typed in the resize dialog: "800,600", "-1,100", "0,0", "abc", "800,x", "1,2,3"
SizeTexts ==
    {<<IntField(800), IntField(600)>>, <<IntField(-1), IntField(100)>>,
     <<IntField(0), IntField(0)>>, <<NotIntField>>,
     <<IntField(800), NotIntField>>, <<IntField(1), IntField(2), IntField(3)>>}

NextResize ==
    \/ \E accepted \in BOOLEAN, fields \in SizeTexts :
          set_level_screen_size(accepted, fields)
    \/ /\ Len(levels) < MaxLevels
       /\ add_level(TRUE, Str_Level1)
    \/ \E r \in 0..(MaxLevels - 1) : on_level_selected(r)
    \/ \E c \in BOOLEAN : delete_level(c)

SpecResize == Init /\ [][NextResize]_vars

(* C12: a resize changes a level only to a positive width and a positive   *)
(* height, a resize that is not applied leaves every level as it was, and  *)
(* every level has a positive width and a positive height.                 *)
Cex_C12_ResizeValidated ==
    /\ \A l \in 1..Len(levels) : levels[l].width > 0 /\ levels[l].height > 0
    /\ (last.op = "set_level_screen_size" /\ ~last.done) => levels = last.pre.levels

----------------------------------------------------------------------------
(* Renaming. *)

\* names typed in a rename dialog: "", " ", " \t", " A "
Str_Empty == <<>>
Str_Tab == <<" ", "\t">>
Str_A == <<" ", "A", " ">>
RenameTexts == {Str_Empty, Blank, Str_Tab, Str_A}

NextRename ==
    \/ \E ok \in BOOLEAN, n \in RenameTexts : rename_sprite(ok, n)
    \/ \E ok \in BOOLEAN, n \in RenameTexts : rename_background(ok, n)
    \/ \E ok \in BOOLEAN, n \in RenameTexts : rename_object(ok, n)
    \/ \E ok \in BOOLEAN, n \in RenameTexts : rename_level(ok, n)
    \/ on_sprite_selected(0)
    \/ on_background_selected(0)
    \/ \E r \in 0..(MaxObjects - 1) : on_object_selected(r)
    \/ \E r \in 0..(MaxLevels - 1) : on_level_selected(r)
    \/ /\ Len(objects) < MaxObjects
       /\ add_object(TRUE, Str_Object1)
    \/ /\ Len(levels) < MaxLevels
       /\ add_level(TRUE, Str_Level1)

SpecRename == Init /\ [][NextRename]_vars

\* the collection a rename handler works on
RenamedCollection(op) ==
    CASE op = "rename_sprite" -> "sprites"
      [] op = "rename_background" -> "backgrounds"
      [] op = "rename_object" -> "objects"
      [] op = "rename_level" -> "levels"

RenameOps == {"rename_sprite", "rename_background", "rename_object", "rename_level"}

\* empty or made of whitespace only
BlankName(n) == \A i \in 1..Len(n) : n[i] \in {" ", "\t", "\n"}

(* C13: a rename to an empty or whitespace-only name leaves the document   *)
(* and the selection as they were; a rename of a selected entity to any    *)
(* other name gives that entity the name as typed and changes nothing      *)
(* else.                                                                   *)
Thm_C13_RenameBlankRejected ==
    last.op \in RenameOps =>
        LET pre == last.pre
            coll == RenamedCollection(last.op)
            k == last.idx
        IN  /\ BlankName(last.arg.name) => Snapshot = pre
            /\ (last.arg.ok /\ ~BlankName(last.arg.name) /\ InRange(k, pre[coll])) =>
                  Snapshot = [pre EXCEPT ![coll] =
                                 [pre[coll] EXCEPT ![k + 1].name = last.arg.name]]

\* A blank rename of the second of two object types was refused.
Wit_C13 ==
    /\ last.op = "rename_object" /\ last.arg.ok /\ last.arg.name = Str_Tab
    /\ last.idx = 1 /\ Len(objects) = 2
    /\ objects[1].name = Str_A /\ objects[2].name = Str_Object1
    /\ \E l \in 1..Len(levels) : levels[l].name = Str_A

----------------------------------------------------------------------------
(* Handlers invoked with a selection that names no entry. A selection is   *)
(* None after a delete; it is out of range after a load, which keeps the   *)
(* selected indices of the file and the sprite selection of the editor.    *)

StaleSelections ==
    {Parsed([BaseDoc EXCEPT !.selected_level_index = v, !.selected_object_index = v,
                            !.selected_background_index = v]) : v \in {-1, 5}}
    \cup {Parsed(JDoc(<<>>, <<>>, <<>>, <<>>, 0))}

NextOutOfRange ==
    \/ \E text \in StaleSelections : HandEdit(text)
    \/ open_project(TRUE)
    \/ /\ Len(sprites) < MaxSprites
       /\ add_sprite(TRUE, Str_Sprite2, NoBytes, PNG)
    \/ \E r \in 0..(MaxSprites - 1) : on_sprite_selected(r)
    \/ edit_sprite(TRUE, Str_A, NoBytes, GIF)
    \/ rename_sprite(TRUE, Str_A)
    \/ delete_sprite(TRUE)
    \/ edit_background(TRUE, Str_A, "image", OtherColor, BackgroundImage, PNG, FALSE)
    \/ rename_background(TRUE, Str_A)
    \/ delete_background(TRUE)
    \/ \E row \in {0, 1} : edit_object(TRUE, row)
    \/ rename_object(TRUE, Str_A)
    \/ delete_object(TRUE)
    \/ rename_level(TRUE, Str_A)
    \/ delete_level(TRUE)

SpecOutOfRange == Init /\ [][NextOutOfRange]_vars

\* the collection an edit, rename or delete handler works on
HandlerCollection(op) ==
    CASE op \in {"edit_sprite", "rename_sprite", "delete_sprite"} -> "sprites"
      [] op \in {"edit_background", "rename_background", "delete_background"} -> "backgrounds"
      [] op \in {"edit_object", "rename_object", "delete_object"} -> "objects"
      [] op \in {"rename_level", "delete_level"} -> "levels"

HandlerOps ==
    {"edit_sprite", "rename_sprite", "delete_sprite", "edit_background",
     "rename_background", "delete_background", "edit_object", "rename_object",
     "delete_object", "rename_level", "delete_level"}

\* the handler that ran last found its selected index None or outside 0..length-1
RanOutOfRange ==
    /\ last.op \in HandlerOps
    /\ \/ last.idx = None
       \/ last.idx < 0
       \/ last.idx >= Len(last.pre[HandlerCollection(last.op)])

(* C14: an edit, rename or delete handler that finds its selected index    *)
(* None or outside 0..length-1 leaves every collection, every foreign key  *)
(* and every selected index as they were, and raises nothing.              *)
Thm_C14_OutOfRangeNoOp ==
    RanOutOfRange => (Snapshot = last.pre /\ pc = "idle")

\* delete_object ran with selected_object_index 5 on two object types,
\* after a load that kept this index of the file.
Wit_C14 ==
    /\ RanOutOfRange
    /\ last.op = "delete_object" /\ last.idx = 5 /\ Len(objects) = 2

----------------------------------------------------------------------------
(* Clicks on the canvas. The default sprite has no image and is drawn 40   *)
(* by 40. A click at (70, 5) places at (64, 0) and one at (100, 45) at     *)
(* (96, 32); (100, 35) lies in the rectangle of both.                      *)

CanvasPoints == {<<70, 5>>, <<100, 45>>, <<100, 35>>}

NextCanvas ==
    \/ \E p \in CanvasPoints :
          /\ CountInstances(levels) < MaxInstances \/ PlacesNone(p[1], p[2])
          /\ mousePressEvent("left", p[1], p[2])
    \/ mousePressEvent("right", 100, 35)
    \/ mouseReleaseEvent
    \/ edit_object(TRUE, 1)
    \/ /\ Len(objects) < MaxObjects
       /\ add_object(TRUE, Str_Object1)
    \/ \E r \in 0..(MaxObjects - 1) : on_object_selected(r)
    \/ delete_object(TRUE)
    \/ delete_level(TRUE)

SpecCanvas == Init /\ [][NextCanvas]_vars

PressOps ==
    {"press_no_level", "press_raised", "pick_up", "place", "delete_instance", "press_nothing"}

\* the instance lies under the point: its object type has a sprite of the
\* document, and the point is in the rectangle of that sprite at the instance
Covers(inst, px, py, objs, sprs) ==
    /\ inst.object_index \in 0..(Len(objs) - 1)
    /\ LET si == objs[inst.object_index + 1].sprite_index
       IN  /\ si # None
           /\ si \in 0..(Len(sprs) - 1)
           /\ inst.x <= px /\ px <= inst.x + SpritePixmap(sprs[si + 1])[1]
           /\ inst.y <= py /\ py <= inst.y + SpritePixmap(sprs[si + 1])[2]

\* the instances of a document's current level
ShownInstances(doc) ==
    IF InRange(doc.selected_level_index, doc.levels)
    THEN doc.levels[doc.selected_level_index + 1].instances
    ELSE <<>>

\* positions in the current level of the instances under the point
Covering(doc, px, py) ==
    {i \in 1..Len(ShownInstances(doc)) :
        Covers(ShownInstances(doc)[i], px, py, doc.objects, doc.sprites)}

Latest(S) == CHOOSE i \in S : \A j \in S : j <= i

\* x, y and object_index of an instance
Placed(inst) == <<inst.x, inst.y, inst.object_index>>

(* C15: a click at a point that instances of the current level cover, two  *)
(* or more included, finds the one of them that is latest in the level's   *)
(* instance sequence.                                                      *)
Thm_C15_TopmostHit ==
    (last.op \in PressOps /\ Covering(last.pre, last.arg.px, last.arg.py) # {}) =>
        /\ last.op \in {"pick_up", "delete_instance"}
        /\ last.idx + 1 = Latest(Covering(last.pre, last.arg.px, last.arg.py))

\* A left click at a point under both instances of the level picked up the
\* second, which had been placed first and brought to the front.
Wit_C15 ==
    /\ last.op = "pick_up" /\ last.idx = 1
    /\ Covering(last.pre, last.arg.px, last.arg.py) = {1, 2}
    /\ ShownInstances(last.pre)[2].x < ShownInstances(last.pre)[1].x

\* x, y and object_index of every instance of every level, in order
AllPlaced(lvls) ==
    [l \in 1..Len(lvls) |-> [i \in 1..Len(lvls[l].instances) |-> Placed(lvls[l].instances[i])]]

AroundLevels(doc) == [doc EXCEPT !.levels = <<>>]

Thm_C19_PlaceOnEmptySpot ==
    (last.op \in PressOps /\ last.arg.button = "left") =>
        LET c == Covering(last.pre, last.arg.px, last.arg.py)
            P == ShownInstances(last.pre)
            Q == ShownInstances(Snapshot)
            soi == last.pre.selected_object_index
            cur == last.pre.selected_level_index + 1
        IN  /\ AroundLevels(Snapshot) = AroundLevels(last.pre)
            /\ Len(levels) = Len(last.pre.levels)
            /\ IF InRange(last.pre.selected_level_index, last.pre.levels)
                  /\ c = {} /\ soi # None
               THEN /\ last.op = "place"
                    /\ Len(Q) = Len(P) + 1
                    /\ \A j \in 1..Len(P) : Placed(Q[j]) = Placed(P[j])
                    /\ Q[Len(Q)].object_index = soi
                    /\ \A l \in 1..Len(levels) :
                          l # cur => AllPlaced(levels)[l] = AllPlaced(last.pre.levels)[l]
               ELSE /\ last.op # "place"
                    /\ \A l \in 1..Len(levels) :
                          Len(levels[l].instances) = Len(last.pre.levels[l].instances)

\* With the second object type selected, a left click next to an instance
\* that has a sprite placed a second instance, of the second type.
Wit_C19 ==
    /\ last.op = "place" /\ last.pre.selected_object_index = 1
    /\ Len(ShownInstances(last.pre)) = 1
    /\ Covering(last.pre, 70, 5) = {1}
    /\ Len(ShownInstances(Snapshot)) = 2
    /\ ShownInstances(Snapshot)[2].object_index = 1

----------------------------------------------------------------------------
(* The hit test on documents that were loaded from a file. The file holds  *)
(* an instance of each of two object types at (0, 0) and (32, 0).          *)

HitDocs ==
    {Parsed([BaseDoc EXCEPT !.objects = <<JObject(a), JObject(b)>>,
                            !.sprites = <<[JSprite EXCEPT !.img_bytes = t]>>]) :
        a \in {None, 0, -1, 1}, b \in {None, 0}, t \in {NoText, ImageText}}

\* corners of the 40 by 40 rectangle at (0, 0), points next to them, and inner points
TestPoints ==
    {<<0, 0>>, <<40, 40>>, <<41, 40>>, <<40, 41>>, <<-1, 0>>, <<5, 5>>, <<36, 5>>,
     <<72, 40>>, <<73, 40>>}

NextHitTest ==
    \/ \E text \in HitDocs : HandEdit(text)
    \/ open_project(TRUE)
    \/ \E b \in {"left", "right"}, p \in {<<5, 5>>, <<36, 5>>} :
          /\ b = "right" \/ CountInstances(levels) < MaxInstances \/ PlacesNone(p[1], p[2])
          /\ mousePressEvent(b, p[1], p[2])
    \/ mouseReleaseEvent

SpecHitTest == InitUntracked /\ [][NextHitTest]_vars

(* C16: an instance of the current level is hit by a point exactly when    *)
(* its object type has a sprite_index that is not None and is an index     *)
(* into sprites, and the point lies in the rectangle from (x, y) to        *)
(* (x + width, y + height) of that sprite, bounds included.                *)
Cex_C16_HitRectangle ==
    \A i \in 1..Len(ShownInstances(Snapshot)) : \A p \in TestPoints :
        LET inst == ShownInstances(Snapshot)[i]
        IN  (contains_point(inst, p[1], p[2], objects, sprites) = "hit")
                <=> Covers(inst, p[1], p[2], objects, sprites)

----------------------------------------------------------------------------
(* New levels, with and without backgrounds to show. *)

LevelTexts == {Str_Level1, Str_A, Str_Tab, Str_Empty}

NextLevels ==
    \/ \E ok \in BOOLEAN, n \in LevelTexts :
          /\ Len(levels) < MaxLevels
          /\ add_level(ok, n)
    \/ delete_level(TRUE)
    \/ \E r \in 0..(MaxLevels - 1) : on_level_selected(r)
    \/ /\ Len(backgrounds) < MaxBackgrounds
       /\ add_background(TRUE, Str_Background1, "color", DefaultColor, NoBytes, PNG, TRUE)
    \/ \E r \in 0..(MaxBackgrounds - 1) : on_background_selected(r)
    \/ delete_background(TRUE)
    \/ /\ CountInstances(levels) < MaxInstances
       /\ mousePressEvent("left", 70, 5)
    \/ mouseReleaseEvent

SpecLevels == Init /\ [][NextLevels]_vars

(* C20: add_level accepted with a name that is not blank appends to levels *)
(* a level of that name, 640 wide and 360 high, without instances, whose   *)
(* background_index is 0 if there is a background and None if there is     *)
(* none, and selects it; the levels that were there and the rest of the    *)
(* document stay as they were.                                             *)
Thm_C20_AddLevelDefaults ==
    (last.op = "add_level" /\ last.arg.ok /\ ~BlankName(last.arg.name)) =>
        /\ levels = Append(last.pre.levels,
               [name |-> last.arg.name, width |-> 640, height |-> 360,
                background_index |-> IF Len(last.pre.backgrounds) >= 1 THEN 0 ELSE None,
                instances |-> <<>>])
        /\ selected_level_index = Len(last.pre.levels)
        /\ AroundLevels(Snapshot) =
               [AroundLevels(last.pre) EXCEPT !.selected_level_index = Len(last.pre.levels)]

\* A level was added after the last background had been deleted, next to a
\* level that holds an instance.
Wit_C20 ==
    /\ last.op = "add_level" /\ last.done
    /\ last.pre.backgrounds = <<>>
    /\ Len(last.pre.levels) = 1
    /\ Len(last.pre.levels[1].instances) = 1
    /\ Len(levels) = 2
    /\ levels[2].background_index = None
    /\ levels[2].name = Str_A

----------------------------------------------------------------------------
(* New sprites, backgrounds and object types in a document whose object    *)
(* types, levels and instances refer to the ones that are there.           *)

NextAdd ==
    \/ \E a \in BOOLEAN :
          /\ Len(sprites) < MaxSprites
          /\ add_sprite(a, Str_Sprite2, NoBytes, PNG)
    \/ /\ Len(sprites) < MaxSprites
       /\ sprite_dropEvent(Str_Sprite2, <<5, 7>>, GIF)
    \/ \E a \in BOOLEAN :
          /\ Len(backgrounds) < MaxBackgrounds
          /\ add_background(a, Str_Background1, "color", OtherColor, NoBytes, PNG, FALSE)
    \/ /\ Len(backgrounds) < MaxBackgrounds
       /\ bg_dropEvent(Str_A, BackgroundImage, PNG)
    \/ \E ok \in BOOLEAN, n \in {Str_Object1, Str_Tab} :
          /\ Len(objects) < MaxObjects
          /\ add_object(ok, n)
    \/ on_object_selected(0)
    \/ edit_object(TRUE, 1)
    \/ set_level_background(TRUE, 1)
    \/ /\ CountInstances(levels) < MaxInstances
       /\ mousePressEvent("left", 70, 5)
    \/ mouseReleaseEvent

SpecAdd == Init /\ [][NextAdd]_vars

AddOps == {"add_sprite", "sprite_drop", "add_background", "bg_drop", "add_object"}

AddedCollection(op) ==
    IF op \in {"add_sprite", "sprite_drop"} THEN "sprites"
    ELSE IF op \in {"add_background", "bg_drop"} THEN "backgrounds"
    ELSE "objects"

(* C22: an add of a sprite, a background or an object type that goes       *)
(* through, from the dialog or from a dropped file, puts one entry after   *)
(* the entries of its collection, which keep their places and values; the  *)
(* other collections, with the sprite_index of every object type, the      *)
(* background_index of every level and the object_index of every instance, *)
(* stay as they were. The selection stays too, but for add_object, which   *)
(* selects the new object type.                                            *)
Thm_C22_AddAppends ==
    (last.op \in AddOps /\ last.done) =>
        LET coll == AddedCollection(last.op)
            old == last.pre[coll]
            new == Snapshot[coll]
        IN  /\ Len(new) = Len(old) + 1
            /\ \A i \in 1..Len(old) : new[i] = old[i]
            /\ Snapshot = [last.pre EXCEPT
                   ![coll] = new,
                   !.selected_object_index =
                       IF last.op = "add_object" THEN Len(new) - 1 ELSE @]

\* A second sprite was added while an object type used sprite 0 and an
\* instance of it stood in a level.
Wit_C22 ==
    /\ last.op = "add_sprite" /\ last.done
    /\ Len(last.pre.sprites) = 1 /\ Len(sprites) = 2
    /\ sprites[2].name = Str_Sprite2
    /\ \E o \in 1..Len(objects) : objects[o].sprite_index = 0
    /\ CountInstances(levels) >= 1

----------------------------------------------------------------------------
(* Deleting sprites, backgrounds, object types and levels, asked and       *)
(* answered, and what the editor does next.                                *)

NextDelete ==
    \/ \E c \in BOOLEAN : delete_sprite(c)
    \/ \E c \in BOOLEAN : delete_background(c)
    \/ \E c \in BOOLEAN : delete_object(c)
    \/ \E c \in BOOLEAN : delete_level(c)
    \/ on_sprite_selected(0)
    \/ on_background_selected(0)
    \/ \E r \in 0..(MaxObjects - 1) : on_object_selected(r)
    \/ \E r \in 0..(MaxLevels - 1) : on_level_selected(r)
    \/ /\ Len(objects) < MaxObjects /\ Room
       /\ add_object(TRUE, Str_Object1)
    \/ /\ Len(levels) < MaxLevels /\ Room
       /\ add_level(TRUE, Str_Level1)
    \/ edit_object(TRUE, 1)
    \/ /\ (CountInstances(levels) < MaxInstances /\ Room) \/ PlacesNone(70, 5)
       /\ mousePressEvent("left", 70, 5)
    \/ mousePressEvent("right", 70, 5)
    \/ mouseReleaseEvent
    \/ set_level_screen_size(TRUE, GoodSize)
    \/ set_level_background(TRUE, 0)

SpecDelete == Init /\ [][NextDelete]_vars

DeleteOps == {"delete_sprite", "delete_background", "delete_object", "delete_level"}

DeletedCollection(op) ==
    CASE op = "delete_sprite" -> "sprites"
      [] op = "delete_background" -> "backgrounds"
      [] op = "delete_object" -> "objects"
      [] op = "delete_level" -> "levels"

(* C23: a delete of a sprite, a background, an object type or a level      *)
(* that the user does not confirm leaves the document and the selection    *)
(* as they were; one entry leaves the collection only when the user has    *)
(* confirmed.                                                              *)
Thm_C23_DeleteAfterConfirm ==
    (last.op \in DeleteOps) =>
        LET coll == DeletedCollection(last.op)
        IN  /\ ~last.arg.confirm => Snapshot = last.pre
            /\ last.done => last.arg.confirm
            /\ IF last.done
               THEN Len(Snapshot[coll]) = Len(last.pre[coll]) - 1
               ELSE Snapshot = last.pre

\* The question about the selected background, which a level shows, was
\* answered with No.
Wit_C23 ==
    /\ last.op = "delete_background" /\ ~last.arg.confirm
    /\ last.idx = 0 /\ Len(last.pre.backgrounds) = 1
    /\ Len(backgrounds) = 1
    /\ \E l \in 1..Len(levels) : levels[l].background_index = 0

(* C27: a confirmed delete of the level at a valid index idx takes that    *)
(* level, with its instances, out of levels and leaves the other levels in *)
(* their order and the other collections and selections as they were;      *)
(* selected_level_index becomes min(idx, len(levels) - 1) if a level is    *)
(* left and None if not. While no level is current, a press on the canvas, *)
(* set_level_screen_size and set_level_background change nothing.          *)
Thm_C27_DeleteLevel ==
    LET pre == last.pre
    IN  /\ (last.op = "delete_level" /\ last.done) =>
              /\ InRange(last.idx, pre.levels)
              /\ Len(levels) = Len(pre.levels) - 1
              /\ \A l \in 1..Len(levels) :
                    levels[l] = pre.levels[IF l <= last.idx THEN l ELSE l + 1]
              /\ selected_level_index =
                    IF Len(levels) >= 1 THEN Min(last.idx, Len(levels) - 1) ELSE None
              /\ Snapshot = [pre EXCEPT !.levels = levels,
                                        !.selected_level_index = selected_level_index]
        /\ (/\ last.op \in PressOps \cup {"set_level_screen_size", "set_level_background"}
            /\ ~InRange(pre.selected_level_index, pre.levels)) =>
              (Snapshot = pre /\ ~last.done /\ pc = "idle")

\* The second of two levels was deleted while selected; the first, which
\* holds an instance, is now the selected one.
Wit_C27 ==
    /\ last.op = "delete_level" /\ last.done /\ last.idx = 1
    /\ Len(last.pre.levels) = 2 /\ Len(levels) = 1
    /\ levels[1].instances # <<>>
    /\ selected_level_index = 0

SelectionOf(op) ==
    CASE op = "delete_sprite" -> "selected_sprite_index"
      [] op = "delete_background" -> "selected_background_index"
      [] op = "delete_object" -> "selected_object_index"

(* C28: a confirmed delete of a sprite, a background or an object type     *)
(* leaves the selection of its collection None; the same delete asked for  *)
(* again at once does nothing; and while selected_object_index is None, it *)
(* stays None and no press on the canvas adds an instance, until           *)
(* on_object_selected or add_object has gone through.                      *)
Thm_C28_DeleteClearsSelection ==
    [][ /\ (last'.op \in DeleteOps \ {"delete_level"} /\ last'.done) =>
               Snapshot'[SelectionOf(last'.op)] = None
        /\ (/\ last.op \in DeleteOps \ {"delete_level"} /\ last.done
            /\ last'.op = last.op) =>
               (~last'.done /\ Snapshot' = Snapshot)
        /\ (/\ selected_object_index = None
            /\ ~(last'.op \in {"select_object", "add_object"} /\ last'.done)) =>
               /\ selected_object_index' = None
               /\ last'.op # "place"
               /\ CountInstances(levels') <= CountInstances(levels)
      ]_vars

\* With its object type deleted and another one left unselected, a left
\* click on a free spot of the current level placed nothing.
Wit_C28 ==
    /\ last.op = "press_nothing" /\ last.arg.button = "left"
    /\ selected_object_index = None
    /\ Len(objects) = 1
    /\ get_current_level # None

----------------------------------------------------------------------------
(* The instances of the levels through every kind of action: editor        *)
(* handlers, pointer events, save and load.                                *)

\* no name or size has been changed from what add and load give
Plain ==
    /\ \A i \in 1..Len(sprites) : sprites[i].name # Str_A
    /\ \A i \in 1..Len(backgrounds) : backgrounds[i].name # Str_A
    /\ \A i \in 1..Len(objects) : objects[i].name # Str_A
    /\ \A i \in 1..Len(levels) : levels[i].name # Str_A /\ levels[i].width = 640

\* One change of a name or of a size stands at a time: it is taken back
\* before the session goes on.
NextLifecycle ==
    \/ \E p \in {<<70, 5>>, <<100, 45>>} :
          /\ Plain
          /\ Room \/ PlacesNone(p[1], p[2])
          /\ mousePressEvent("left", p[1], p[2])
    \/ Plain /\ mousePressEvent("right", 70, 5)
    \/ Plain /\ mouseMoveEvent(200, 100)
    \/ Plain /\ mouseReleaseEvent
    \/ Plain /\ delete_sprite(TRUE)
    \/ Plain /\ delete_background(TRUE)
    \/ Plain /\ delete_object(TRUE)
    \/ Plain /\ delete_level(TRUE)
    \/ Plain /\ on_sprite_selected(0)
    \/ Plain /\ on_background_selected(0)
    \/ \E r \in 0..(MaxObjects - 1) : Plain /\ on_object_selected(r)
    \/ \E r \in 0..(MaxLevels - 1) : Plain /\ on_level_selected(r)
    \/ Plain /\ edit_sprite(TRUE, Str_Sprite1, <<5, 7>>, GIF)
    \/ Plain /\ edit_object(TRUE, 1)
    \/ Plain /\ set_level_background(TRUE, 0)
    \/ /\ Plain /\ Len(objects) < MaxObjects /\ Room
       /\ add_object(TRUE, Str_Object1)
    \/ /\ Plain /\ Len(levels) < MaxLevels /\ Room
       /\ add_level(TRUE, Str_Level1)
    \/ /\ Plain /\ ~file.written
       /\ HandEdit(Parsed(BaseDoc))
    \/ Plain /\ open_project(TRUE)
    \/ \E n \in {Str_A, Str_Sprite1} : (Plain \/ n # Str_A) /\ rename_sprite(TRUE, n)
    \/ \E n \in {Str_A, Str_Background1} :
          /\ Plain \/ n # Str_A
          /\ edit_background(TRUE, n, "color", OtherColor, NoBytes, PNG, FALSE)
    \/ \E n \in {Str_A, Str_Background1} : (Plain \/ n # Str_A) /\ rename_background(TRUE, n)
    \/ \E n \in {Str_A, Str_Object1} : (Plain \/ n # Str_A) /\ rename_object(TRUE, n)
    \/ \E n \in {Str_A, Str_Level1} : (Plain \/ n # Str_A) /\ rename_level(TRUE, n)
    \/ \E f \in {<<IntField(800), IntField(600)>>, GoodSize} :
          /\ Plain \/ f = GoodSize
          /\ set_level_screen_size(TRUE, f)

SpecLifecycle == InitUntracked /\ [][NextLifecycle]_vars

\* a rename, an edit, a resize, a change of a level's background, or a
\* delete of a sprite or of a background
StillStep ==
    \/ rename_sprite(TRUE, Str_A)
    \/ rename_background(TRUE, Str_A)
    \/ rename_object(TRUE, Str_A)
    \/ rename_level(TRUE, Str_A)
    \/ edit_sprite(TRUE, Str_Sprite1, <<5, 7>>, GIF)
    \/ edit_background(TRUE, Str_A, "color", OtherColor, NoBytes, PNG, FALSE)
    \/ edit_object(TRUE, 1)
    \/ set_level_screen_size(TRUE, <<IntField(800), IntField(600)>>)
    \/ set_level_background(TRUE, 0)
    \/ delete_sprite(TRUE)
    \/ delete_background(TRUE)

LeftPress == \E p \in {<<70, 5>>, <<100, 45>>} : mousePressEvent("left", p[1], p[2])

\* the object types of the instances of every level, in order
Kinds(lvls) ==
    [l \in 1..Len(lvls) |->
        [i \in 1..Len(lvls[l].instances) |-> lvls[l].instances[i].object_index]]

\* how many instances of a level are at (x, y) with object type k
Standing(lvl, x, y, k) ==
    Cardinality({i \in 1..Len(lvl.instances) :
        Placed(lvl.instances[i]) = <<x, y, k>>})

(* C24: a step adds an instance only if it is a left press on the canvas   *)
(* or a load, and takes one away only if it is a right press, a delete of  *)
(* an object type or of a level, or a load. A rename, an edit, a resize, a *)
(* change of a level's background and a delete of a sprite or of a         *)
(* background leave the instances of every level as they are; a pointer    *)
(* move leaves every instance in its level, at its place in the list, with *)
(* its object type; a left press that adds nothing leaves in every level   *)
(* the same instances, perhaps in another order.                           *)
Thm_C24_InstanceLifecycle ==
    [][ /\ CountInstances(levels') > CountInstances(levels) =>
              (LeftPress \/ open_project(TRUE))
        /\ CountInstances(levels') < CountInstances(levels) =>
              \/ mousePressEvent("right", 70, 5)
              \/ delete_object(TRUE)
              \/ delete_level(TRUE)
              \/ open_project(TRUE)
        /\ StillStep => AllPlaced(levels') = AllPlaced(levels)
        /\ mouseMoveEvent(200, 100) => Kinds(levels') = Kinds(levels)
        /\ (LeftPress /\ CountInstances(levels') = CountInstances(levels)) =>
              /\ Len(levels') = Len(levels)
              /\ \A l \in 1..Len(levels) :
                    /\ Len(levels'[l].instances) = Len(levels[l].instances)
                    /\ \A i \in 1..Len(levels[l].instances) :
                          LET q == levels[l].instances[i]
                          IN  Standing(levels'[l], q.x, q.y, q.object_index)
                                  = Standing(levels[l], q.x, q.y, q.object_index)
      ]_vars

\* The sprite that an instance showed was deleted, and the instance is
\* still in its level.
Wit_C24 ==
    /\ sprites = <<>>
    /\ CountInstances(levels) >= 1
    /\ \E o \in 1..Len(objects) : objects[o].sprite_index = None

----------------------------------------------------------------------------
(* Saving the project at any moment of an editing session, with every      *)
(* outcome of the file dialog and of the write; the session edits until a  *)
(* file has been written.                                                  *)

NextSave ==
    \/ \E chosen \in BOOLEAN, outcome \in {"ok", "no_open", "no_write"} :
          save_project(chosen, outcome)
    \/ /\ Editing /\ Len(objects) < MaxObjects /\ Room
       /\ add_object(TRUE, Str_Object1)
    \/ \E r \in 0..(MaxObjects - 1) : Editing /\ on_object_selected(r)
    \/ Editing /\ delete_object(TRUE)
    \/ Editing /\ edit_object(TRUE, 1)
    \/ Editing /\ on_sprite_selected(0)
    \/ Editing /\ edit_sprite(TRUE, Str_Sprite1, <<5, 7>>, GIF)
    \/ Editing /\ on_background_selected(0)
    \/ Editing /\ delete_background(TRUE)
    \/ Editing /\ delete_level(TRUE)
    \/ /\ Editing /\ Len(levels) < MaxLevels /\ Room
       /\ add_level(TRUE, Str_Level1)
    \/ /\ Editing
       /\ (CountInstances(levels) < MaxInstances /\ Room) \/ PlacesNone(70, 5)
       /\ mousePressEvent("left", 70, 5)
    \/ mouseReleaseEvent

SpecSave == Init /\ [][NextSave]_vars

(* C26: save_project, whether the dialog is cancelled, the file cannot be  *)
(* opened, the write fails or the write succeeds, leaves the backgrounds,  *)
(* sprites, object types, levels with their instances, every reference     *)
(* between them and the selection as they were.                            *)
Thm_C26_SaveLeavesDocument ==
    (last.op = "save_project") => (Snapshot = last.pre /\ pc = "idle")

\* A write failed halfway and left a broken file, with an instance in a
\* level and no object type selected.
Wit_C26 ==
    /\ last.op = "save_project" /\ ~last.done
    /\ file = Unparseable
    /\ CountInstances(levels) >= 1
    /\ selected_object_index = None /\ objects # <<>>

----------------------------------------------------------------------------
(* Placing and dragging on grids of every size, the pointer going left of  *)
(* and above the canvas while it drags.                                    *)

GridPresses == {<<70, 5>>, <<100, 45>>}
GridMoves == {<<3, 2>>, <<-50, 200>>, <<130, 64>>}

NextGrid ==
    \/ \E ok \in BOOLEAN, g \in GridSizes : set_grid_size(ok, g)
    \/ \E p \in GridPresses :
          /\ CountInstances(levels) < MaxInstances \/ PlacesNone(p[1], p[2])
          /\ mousePressEvent("left", p[1], p[2])
    \/ mousePressEvent("right", 100, 45)
    \/ \E p \in GridMoves : mouseMoveEvent(p[1], p[2])
    \/ mouseReleaseEvent
    \/ edit_object(TRUE, 1)

SpecGrid == InitBrief /\ [][NextGrid]_vars

\* c is a multiple of g, and v lies in the cell of the grid that starts at c
CellOf(c, v, g) ==
    /\ c % g = 0
    /\ c <= v /\ v < c + g

(* C29: the instance placed by a click at (px, py) stands at the multiples *)
(* x and y of grid_size with x <= px < x + grid_size and y <= py < y +      *)
(* grid_size; the instance dragged by a pointer move to (px, py) stands at *)
(* the multiples x and y of grid_size with x <= px - drag_offset[0] < x +  *)
(* grid_size and y <= py - drag_offset[1] < y + grid_size, also where the  *)
(* difference is negative.                                                 *)
Thm_C29_GridSnap ==
    /\ (last.op = "place") =>
          LET Q == ShownInstances(Snapshot)
              q == Q[Len(Q)]
          IN  /\ CellOf(q.x, last.arg.px, grid_size)
              /\ CellOf(q.y, last.arg.py, grid_size)
    /\ (last.op = "move" /\ last.done) =>
          \A l \in 1..Len(levels) : \A i \in 1..Len(levels[l].instances) :
              LET q == levels[l].instances[i]
              IN  q.held =>
                    /\ CellOf(q.x, last.arg.px - drag_offset[1], grid_size)
                    /\ CellOf(q.y, last.arg.py - drag_offset[2], grid_size)

\* On a grid of 64, the instance picked up 6 to the right of its corner
\* was dragged to pointer position 3, left of the corner, and stands at -64.
Wit_C29 ==
    /\ last.op = "move" /\ last.done /\ last.arg.px = 3
    /\ grid_size = 64 /\ drag_offset[1] = 6
    /\ \E i \in 1..Len(ShownInstances(Snapshot)) :
          /\ ShownInstances(Snapshot)[i].held
          /\ ShownInstances(Snapshot)[i].x = -64

(* C30: a pointer move changes the position of an instance only when the  *)
(* press that the button is still held from picked an instance up: the     *)
(* step before the move is that pick-up, or a move that follows it.        *)
Cex_C30_MoveOnlyAfterPickUp ==
    [][ (last'.op = "move" /\ AllPlaced(levels') # AllPlaced(levels)) =>
            last.op \in {"pick_up", "move"} ]_vars

----------------------------------------------------------------------------
(* Working on a project that was loaded from a file whose object           *)
(* selection or whose sprite reference names no entry. The file holds one  *)
(* sprite, two object types and one instance, at (0, 0).                   *)

StaleDocs ==
    {Parsed([BaseDoc EXCEPT !.objects = <<JObject(si), JObject(None)>>,
                            !.levels = <<JLevel(0, <<JInstance(0, 0)>>)>>,
                            !.selected_object_index = v]) :
        si \in {0, 5, -1}, v \in {0, 5}}

NextStale ==
    \/ \E text \in StaleDocs : HandEdit(text)
    \/ open_project(TRUE)
    \/ \E p \in {<<5, 5>>, <<70, 5>>} :
          /\ CountInstances(levels) < MaxInstances \/ PlacesNone(p[1], p[2])
          /\ mousePressEvent("left", p[1], p[2])
    \/ mousePressEvent("right", 5, 5)
    \/ mouseReleaseEvent
    \/ \E accepted \in BOOLEAN : edit_object(accepted, 1)
    \/ \E r \in 0..(MaxObjects - 1) : on_object_selected(r)

SpecStale == InitBrief /\ [][NextStale]_vars

(* C31: no handler indexes a collection out of range. No hit test and no   *)
(* lookup of the chooser's entry raises; every instance that a click can   *)
(* hit-test has an object_index that is an index into objects; a left      *)
(* click places an instance only of an object type that exists; and        *)
(* edit_object finds the sprite_index of the object type it opens None or  *)
(* an index into sprites.                                                  *)
Cex_C31_NoOutOfRangeLookup ==
    /\ pc # "crashed"
    /\ \A l \in 1..Len(levels) : \A i \in 1..Len(levels[l].instances) :
          InRange(levels[l].instances[i].object_index, objects)
    /\ (last.op = "place") => InRange(last.idx, objects)
    /\ (last.op = "edit_object" /\ InRange(last.idx, objects) /\ ~last.done) =>
          LET si == objects[last.idx + 1].sprite_index
          IN  si = None \/ InRange(si, sprites)

----------------------------------------------------------------------------
(* Names typed into the add, edit and rename dialogs: a name, the empty    *)
(* text that SpriteEditDialog and BackgroundEditDialog open with, and      *)
(* white space.                                                            *)

TypedNames == {Str_Sprite2, Str_Empty, Str_Tab}

NextNames ==
    \/ \E a \in BOOLEAN, n \in TypedNames :
          /\ Len(sprites) < MaxSprites /\ Room
          /\ add_sprite(a, n, NoBytes, PNG)
    \/ \E a \in BOOLEAN, n \in TypedNames : edit_sprite(a, n, NoBytes, PNG)
    \/ \E ok \in BOOLEAN, n \in TypedNames : rename_sprite(ok, n)
    \/ on_sprite_selected(0)
    \/ \E a \in BOOLEAN, n \in TypedNames :
          /\ Len(backgrounds) < MaxBackgrounds /\ Room
          /\ add_background(a, n, "color", DefaultColor, NoBytes, PNG, TRUE)
    \/ \E a \in BOOLEAN, n \in TypedNames :
          edit_background(a, n, "color", DefaultColor, NoBytes, PNG, TRUE)
    \/ \E ok \in BOOLEAN, n \in TypedNames : rename_background(ok, n)
    \/ on_background_selected(0)
    \/ \E ok \in BOOLEAN, n \in TypedNames :
          /\ Len(objects) < MaxObjects /\ Room
          /\ add_object(ok, n)
    \/ \E ok \in BOOLEAN, n \in TypedNames : rename_object(ok, n)
    \/ \E ok \in BOOLEAN, n \in TypedNames :
          /\ Len(levels) < MaxLevels /\ Room
          /\ add_level(ok, n)
    \/ \E ok \in BOOLEAN, n \in TypedNames : rename_level(ok, n)

SpecNames == InitBrief /\ [][NextNames]_vars

(* C32: no sprite, background, object type or level has a name that is     *)
(* empty or made of white space only.                                      *)
Cex_C32_NoBlankName ==
    /\ \A i \in 1..Len(sprites) : ~BlankName(sprites[i].name)
    /\ \A i \in 1..Len(backgrounds) : ~BlankName(backgrounds[i].name)
    /\ \A i \in 1..Len(objects) : ~BlankName(objects[i].name)
    /\ \A i \in 1..Len(levels) : ~BlankName(levels[i].name)

----------------------------------------------------------------------------
(* Sprites and backgrounds whose image format or name is changed after     *)
(* they were built: still images become animations and back, by the edit   *)
(* dialog and by a rename to a name that ends with .gif.                   *)

Str_Gif == <<"a", ".", "G", "i", "f">>
GifImage == <<3, 4>>
FormatNames == {Str_Sprite1, Str_Gif}
Formats == {PNG, GIF}

NextFormats ==
    \/ \E n \in FormatNames, f \in Formats :
          /\ Len(sprites) < MaxSprites /\ Room
          /\ add_sprite(TRUE, n, GifImage, f)
    \/ /\ Len(sprites) < MaxSprites /\ Room
       /\ sprite_dropEvent(Str_Gif, GifImage, GIF)
    \/ \E a \in BOOLEAN, n \in FormatNames, f \in Formats : edit_sprite(a, n, GifImage, f)
    \/ \E n \in FormatNames : rename_sprite(TRUE, n)
    \/ \E r \in 0..(MaxSprites - 1) : on_sprite_selected(r)
    \/ delete_sprite(TRUE)
    \/ \E n \in FormatNames, f \in Formats :
          /\ Len(backgrounds) < MaxBackgrounds /\ Room
          /\ add_background(TRUE, n, "image", DefaultColor, GifImage, f, TRUE)
    \/ \E a \in BOOLEAN, n \in FormatNames, f \in Formats :
          edit_background(a, n, "image", DefaultColor, GifImage, f, TRUE)
    \/ \E n \in FormatNames : rename_background(TRUE, n)
    \/ \E r \in 0..(MaxBackgrounds - 1) : on_background_selected(r)
    \/ delete_background(TRUE)

SpecFormats == InitUntracked /\ [][NextFormats]_vars

(* C33: the animated flag of every sprite and of every background is that  *)
(* of a resource newly built from its current name, image and format: set  *)
(* exactly when the format is GIF or the name ends with .gif.              *)
Cex_C33_AnimatedFlagCurrent ==
    /\ \A i \in 1..Len(sprites) :
          LET s == sprites[i]
          IN  s.is_gif = Sprite(s.name, s.img_bytes, s.img_format).is_gif
    /\ \A i \in 1..Len(backgrounds) :
          LET b == backgrounds[i]
          IN  b.is_gif = BackgroundResource(b.name, b.mode, b.color, b.img_bytes,
                                            b.img_format, b.tiled).is_gif

----------------------------------------------------------------------------
(* The sprite chooser of edit_object on projects in which two sprites have *)
(* the same name: "Sprite 1" added a second time.                          *)

(* C34: edit_object accepted with row r of the chooser gives the selected  *)
(* object type the sprite_index r - 1, or None for row 0, and changes no   *)
(* other object type, no sprite, no background and no level.               *)
Cex_C34_ChooserSetsRow ==
    [][ \A r \in 0..MaxSprites :
          (edit_object(TRUE, r) /\ InRange(selected_object_index, objects)) =>
              /\ objects' = [objects EXCEPT ![selected_object_index + 1].sprite_index =
                                               IF r = 0 THEN None ELSE r - 1]
              /\ UNCHANGED <<sprites, backgrounds, levels>> ]_vars

====
